---- MODULE Spec2Model ----
(***************************************************************************)
(* Ektachrome: the toolbar popup's request-id protocol for remote          *)
(* discovery (src/controls/toolbar-popup.js, src/index.js,                 *)
(* src/picker/element-picker.js) and the line-oriented CSS source parser   *)
(* and mutator (server/css-parser.js).                                     *)
(***************************************************************************)
EXTENDS Integers, Sequences, FiniteSets, TLC

(***************************************************************************)
(* Bounds                                                                  *)
(***************************************************************************)
\* the request counter is capped: no show()/hide() once it reaches the cap
MaxRequestId == 2

(***************************************************************************)
(* PART 1 - toolbar popup, picker and Ektachrome session                   *)
(***************************************************************************)
VARIABLES
    active,        \* Ektachrome._active
    pickerActive,  \* ElementPicker._active
    display,       \* ToolbarPopup.style.display
    elementInfo,   \* ToolbarPopup._elementInfo
    grouped,       \* ToolbarPopup._grouped (the tokens the popup renders)
    activeTab,     \* ToolbarPopup._activeTab
    requestId,     \* ToolbarPopup._requestId
    calls,         \* the show() invocations: captured id -> element, position
    gesture        \* the mouse gesture under way: its mousedown and click

popupVars == <<active, pickerActive, display, elementInfo, grouped, activeTab,
               requestId, calls, gesture>>

\* the text handed to the CSS parser and mutator, the call and its result
VARIABLES
    doc,         \* the composition of the input text
    cssText,     \* the input text
    call,        \* the call made: function and arguments
    result       \* what the call returned

cssVars == <<doc, cssText, call, result>>

\* how the last call of discoverVariables ended
VARIABLES settled

\* the dev server handling one commit request
VARIABLES
    files,         \* the contents of the project's CSS files, in scan order
    changes,       \* body.changes
    selectorOpt,   \* commitOptions.selector || null
    pos,           \* the change the loop is at (0: no request)
    committed,
    errors,
    response       \* what sendJSON sent

serverVars == <<files, changes, selectorOpt, pos, committed, errors,
                response>>

\* the page's root custom properties and the persisted pending changes
VARIABLES
    root,          \* document.documentElement.style: inline custom properties
    store,         \* localStorage state.variables: name -> {original, current}
    preEdit,       \* the computed value each pending variable had before
                   \* its first edit (kept for the properties only)
    payload,       \* the changes of the commit request in flight
    op             \* the last operation on the store

storeVars == <<root, store, preEdit, payload, op>>

\* the module state of scanner/variable-map.js
VARIABLES
    variableMap,   \* the cache: entries property, value -> variable
    isBuilt,
    tokens,        \* what the last resolveTokensForElement returned
    mapCall        \* the last call into the module, and its number

mapVars == <<variableMap, isBuilt, tokens, mapCall>>

allVars == <<popupVars, settled, cssVars, serverVars, storeVars, mapVars>>

\* everything but the popup, the text harness, the server, the store
offPopupVars == <<cssVars, serverVars, storeVars, mapVars>>
offCssVars == <<popupVars, settled, serverVars, storeVars, mapVars>>
offServerVars == <<popupVars, settled, cssVars, storeVars, mapVars>>
offStoreVars == <<popupVars, settled, cssVars, serverVars, mapVars>>
\* everything but the variable map and the page's root properties
offMapVars == <<popupVars, settled, cssVars, serverVars>>

NoCall == [fn |-> "none"]

\* no discovery has settled
NotSettled == [kind |-> "none", rejected |-> FALSE, variables |-> <<>>]

\* no text is loaded and no call is made
CssIdle ==
    /\ doc = <<>>
    /\ cssText = <<>>
    /\ call = NoCall
    /\ result = <<>>

NoResponse == [status |-> 0]

\* no commit request is being handled
ServerIdle ==
    /\ files = <<>>
    /\ changes = <<>>
    /\ selectorOpt = <<>>
    /\ pos = 0
    /\ committed = <<>>
    /\ errors = <<>>
    /\ response = NoResponse

\* nothing was edited
StoreIdle ==
    /\ root = <<>>
    /\ store = <<>>
    /\ preEdit = <<>>
    /\ payload = <<>>
    /\ op = "none"

\* let variableMap = {}; let isBuilt = false;
MapIdle ==
    /\ variableMap = {}
    /\ isBuilt = FALSE
    /\ tokens = {}
    /\ mapCall = [fn |-> "none", n |-> 0]

NoElement == "null"
\* "L" has tokens that direct detection finds (the variable map knows one
\* of them too), "M" has a token that only the variable map resolves; "A"
\* and "B" have none and fall back to remote discovery
Elements == {"A", "B", "L", "M"}
\* an element inside the shadow tree of one of the popup's token controls:
\* closest('[data-ektachrome]') finds nothing from there, so the picker
\* does not take it for Ektachrome's own UI; it has no tokens
PopupControls == {"C"}
DirectElements == {"L"}
MappedElements == {"L", "M"}
LocalElements == DirectElements \cup MappedElements

\* discoverVariables is asked per adjustment type, in this order
StageNames == {"color", "spacing", "typography"}

\* a token of the popup: the variable, its category, the element and the
\* show() call it was resolved for
PopupToken(e, req, cat, variable) ==
    [elem |-> e, req |-> req, cat |-> cat, variable |-> variable]

\* findCSSVariablesForElement(elementInfo.element)
DirectVars(e, req) ==
    IF e \in DirectElements THEN {PopupToken(e, req, "color", "--x")} ELSE {}

\* _convertTokensToVars(resolveTokensForElement(elementInfo.element))
MappedVars(e, req) ==
    IF e \notin MappedElements THEN {}
    ELSE IF e \in DirectElements
    THEN {PopupToken(e, req, "color", "--x"),
          PopupToken(e, req, "spacing", "--y")}
    ELSE {PopupToken(e, req, "spacing", "--y")}

\* _mergeVariables(vars, mappedVars): the direct references and the mapped
\* ones whose variable no direct reference has
LocalVars(e, req) ==
    LET directVars == DirectVars(e, req)
        mappedVars == MappedVars(e, req)
    IN  directVars \cup
        {m \in mappedVars : \A d \in directVars : d.variable # m.variable}

\* the fallback runs whatever the merged list holds
StartsDiscoveryMutant(vars) == TRUE

\* if (vars.length === 0)
StartsDiscovery(vars) == vars = {}

\* one response of discoverVariables for the call req on element e
RemoteVars(e, req, cat, nonEmpty) ==
    IF nonEmpty THEN {PopupToken(e, req, cat, "--remote")} ELSE {}

\* availableTabs[0] || null
FirstTab(vars) ==
    IF vars = {} THEN "null" ELSE (CHOOSE t \in vars : TRUE).cat

\* currentRequestId !== this._requestId is false
IsCurrentMutant(id) == TRUE
IsCurrent(id) == id = requestId

PendingIds == {id \in DOMAIN calls : calls[id].pc \in StageNames}

\* no mouse button was pressed yet
NoGesture ==
    [phase |-> "none", onPage |-> FALSE, selects |-> FALSE,
     downCancelled |-> FALSE, clickCancelled |-> FALSE]

\* the session is off and the popup is closed
PopupIdle ==
    /\ gesture = NoGesture
    /\ active = FALSE
    /\ pickerActive = FALSE
    /\ display = "none"
    /\ elementInfo = NoElement
    /\ grouped = {}
    /\ activeTab = "null"
    /\ requestId = 0
    /\ calls = <<>>
    /\ settled = NotSettled

PopupInit == PopupIdle /\ CssIdle /\ ServerIdle /\ StoreIdle /\ MapIdle

\* ToolbarPopup.hide() past its early return; closeActive is Ektachrome._active
\* as the popup-close listener sees it
HideState(closeActive) ==
    [display |-> "none", elementInfo |-> NoElement, grouped |-> {},
     activeTab |-> "null", requestId |-> requestId + 1,
     pickerActive |-> IF closeActive THEN TRUE ELSE pickerActive]

\* the popup fields as they are when nothing was hidden
SameState ==
    [display |-> display, elementInfo |-> elementInfo, grouped |-> grouped,
     activeTab |-> activeTab, requestId |-> requestId,
     pickerActive |-> pickerActive]

\* ToolbarPopup.hide(): a no-op when the popup is not displayed
Hide(closeActive) ==
    IF display = "none" THEN SameState ELSE HideState(closeActive)

\* ToolbarPopup.show(e) up to its first suspension, started from the popup
\* fields s; the picker has deactivated itself before calling onSelect
Show(s, e) ==
    LET id == s.requestId + 1
        vars == LocalVars(e, id)
    IN  /\ requestId' = id
        /\ elementInfo' = e
        /\ pickerActive' = FALSE
        /\ IF ~StartsDiscovery(vars)
           THEN /\ grouped' = vars
                /\ activeTab' = FirstTab(vars)
                /\ display' = "block"
                /\ calls' = calls @@ (id :> [elem |-> e, pc |-> "done"])
           ELSE /\ grouped' = s.grouped
                /\ activeTab' = s.activeTab
                /\ display' = s.display
                /\ calls' = calls @@ (id :> [elem |-> e, pc |-> "color"])

\* FloatingButton click: toggles and dispatches activate / deactivate
FabClick ==
    /\ UNCHANGED <<settled, offPopupVars>>
    /\ IF ~active
       THEN \* Ektachrome.activate()
            /\ active' = TRUE
            /\ pickerActive' = TRUE
            /\ UNCHANGED <<display, elementInfo, grouped, activeTab,
                           requestId, calls, gesture>>
       ELSE \* Ektachrome.deactivate(): _active is false when hide() runs
            LET s == Hide(FALSE)
            IN  /\ s.requestId <= MaxRequestId
                /\ active' = FALSE
                /\ pickerActive' = FALSE
                /\ display' = s.display
                /\ elementInfo' = s.elementInfo
                /\ grouped' = s.grouped
                /\ activeTab' = s.activeTab
                /\ requestId' = s.requestId
                /\ UNCHANGED <<calls, gesture>>

\* the mousedown of a gesture as the picker leaves it: _onMouseDown calls
\* preventDefault, stopPropagation and stopImmediatePropagation when it
\* selects
MouseDownEvent(target, selects) ==
    [phase |-> "down", onPage |-> target \in Elements, selects |-> selects,
     downCancelled |-> selects, clickCancelled |-> FALSE]

\* a mousedown on a page element, on Ektachrome's own UI outside the popup
\* ("ui") or on a token control inside the displayed popup: the popup's
\* document listener runs first (ToolbarPopup._onDocumentClick, which
\* closes the popup unless the event's path includes it), then the
\* picker's if it was registered (ElementPicker._onMouseDown), which
\* ignores Ektachrome's own UI
MouseDown(target) ==
    LET inside == target \in PopupControls
        s == IF inside THEN SameState ELSE Hide(active)
        selects == pickerActive /\ target \in Elements \cup PopupControls
    IN  /\ inside => (display = "block" /\ grouped # {})
        /\ UNCHANGED <<active, settled, offPopupVars>>
        /\ gesture' = MouseDownEvent(target, selects)
        /\ IF selects
           THEN /\ s.requestId + 1 <= MaxRequestId
                /\ Show(s, target)
           ELSE /\ s.requestId <= MaxRequestId
                /\ display' = s.display
                /\ elementInfo' = s.elementInfo
                /\ grouped' = s.grouped
                /\ activeTab' = s.activeTab
                /\ requestId' = s.requestId
                /\ pickerActive' = s.pickerActive
                /\ UNCHANGED calls

\* ElementPicker._onKeyDown: Escape leaves selection mode
PickerEscape ==
    /\ pickerActive
    /\ pickerActive' = FALSE
    /\ UNCHANGED <<active, display, elementInfo, grouped, activeTab, requestId,
                   calls, gesture, settled, offPopupVars>>

\* document.addEventListener('click', this._onClick, true) is in force:
\* activate() adds the listener, deactivate() removes it
ClickListened == pickerActive

\* the click event of the gesture under way: ElementPicker._onClick, if it
\* is registered, cancels a click on a page element; otherwise the click
\* goes to its target
Click ==
    /\ gesture.phase = "down"
    /\ gesture' = [gesture EXCEPT
                      !.phase = "click",
                      !.clickCancelled = ClickListened /\ gesture.onPage]
    /\ UNCHANGED <<active, pickerActive, display, elementInfo, grouped,
                   activeTab, requestId, calls, settled, offPopupVars>>

NextStage(stage) ==
    IF stage = "color" THEN "spacing" ELSE "typography"

\* one discoverVariables promise of the call id settles; _tryClaudeDiscovery
\* goes on to the next adjustment type or returns to show(), which checks
\* the request id before it writes
DiscoverReturns(id, nonEmpty) ==
    /\ id \in PendingIds
    /\ LET c == calls[id]
           vars == RemoteVars(c.elem, id, c.pc, nonEmpty)
       IN  IF ~nonEmpty /\ c.pc # "typography"
           THEN /\ calls' = [calls EXCEPT ![id].pc = NextStage(c.pc)]
                /\ UNCHANGED <<display, grouped, activeTab>>
           ELSE IF ~IsCurrent(id)
           THEN /\ calls' = [calls EXCEPT ![id].pc = "stale"]
                /\ UNCHANGED <<display, grouped, activeTab>>
           ELSE /\ calls' = [calls EXCEPT ![id].pc = "done"]
                /\ grouped' = vars
                /\ activeTab' = FirstTab(vars)
                /\ display' = "block"
    /\ UNCHANGED <<active, pickerActive, elementInfo, requestId, gesture,
                   offPopupVars>>

\* what a request to the text-generation service comes to: no API key is
\* configured, fetch rejects, the status is not OK, the text holds no
\* [...], the [...] is not JSON, it is the empty array, it is an array of
\* suggestions
Failures == {"nokey", "network", "status", "noarray", "badjson"}
Outcomes == Failures \cup {"empty", "tokens"}

Thrown == [throws |-> TRUE]
Returned(value) == [throws |-> FALSE, value |-> value]

\* callClaude: the response text, or an exception
callClaude(kind) ==
    IF kind = "nokey" THEN Thrown
    ELSE IF kind = "network" THEN Thrown
    ELSE IF kind = "status" THEN Thrown
    ELSE Returned(kind)

\* callClaudeJSON with jsonType 'array': the parsed array, or an exception
callClaudeJSON(kind) ==
    LET responseText == callClaude(kind)
    IN  IF responseText.throws THEN Thrown
        ELSE IF responseText.value = "noarray" THEN Thrown
        ELSE IF responseText.value = "badjson" THEN Thrown
        ELSE IF responseText.value = "empty" THEN Returned(<<>>)
        ELSE Returned(<<"suggestion">>)

\* the promise of discoverVariables: rejected, or resolved to variables
Resolved(variables) == [rejected |-> FALSE, variables |-> variables]

\* the exception goes on to the caller
CaughtMutant(error) == [rejected |-> TRUE, variables |-> <<>>]

\* catch (error) { console.warn(...); return []; }
Caught(error) == Resolved(<<>>)

discoverVariables(kind) ==
    IF kind = "nokey" THEN Resolved(<<>>)
    ELSE LET variables == callClaudeJSON(kind)
         IN  IF variables.throws THEN Caught(variables)
             ELSE Resolved(variables.value)

\* the catch of _tryClaudeDiscovery: the call id gets [] at once, and show()
\* checks the request id before it writes
DiscoveryThrows(id) ==
    /\ id \in PendingIds
    /\ IF ~IsCurrent(id)
       THEN /\ calls' = [calls EXCEPT ![id].pc = "stale"]
            /\ UNCHANGED <<display, grouped, activeTab>>
       ELSE /\ calls' = [calls EXCEPT ![id].pc = "done"]
            /\ grouped' = {}
            /\ activeTab' = FirstTab({})
            /\ display' = "block"
    /\ UNCHANGED <<active, pickerActive, elementInfo, requestId, gesture,
                   offPopupVars>>

\* the request of the call id comes to kind, and discoverVariables settles
DiscoverSettles(id, kind) ==
    LET promise == discoverVariables(kind)
    IN  /\ settled' = [kind |-> kind, rejected |-> promise.rejected,
                       variables |-> promise.variables]
        /\ IF promise.rejected
           THEN DiscoveryThrows(id)
           ELSE DiscoverReturns(id, Len(promise.variables) > 0)

PopupNext ==
    \/ FabClick
    \/ \E target \in Elements \cup PopupControls \cup {"ui"} :
           MouseDown(target)
    \/ PickerEscape
    \/ Click
    \/ \E id \in 1..MaxRequestId, kind \in Outcomes :
           DiscoverSettles(id, kind)

(***************************************************************************)
(* PART 2 - CSS source parser and mutator (server/css-parser.js)           *)
(* A text is a sequence of one-character strings.                          *)
(***************************************************************************)
\* what the regular expressions' \s matches
Space == {" ", "\t", "\n", "\r", "\f"}

\* what [\w-] matches
NameChars ==
    {"a", "b", "c", "d", "e", "f", "g", "h", "i", "j", "k", "l", "m", "n",
     "o", "p", "q", "r", "s", "t", "u", "v", "w", "x", "y", "z",
     "A", "B", "C", "D", "E", "F", "G", "H", "I", "J", "K", "L", "M", "N",
     "O", "P", "Q", "R", "S", "T", "U", "V", "W", "X", "Y", "Z",
     "0", "1", "2", "3", "4", "5", "6", "7", "8", "9", "_", "-"}

\* line.trim().slice(0, 20)
PrefixLength == 20

\* selector = null
NullSelector == <<"null">>
\* selector === '*'
AllSelector == <<"*">>
\* currentSelector || ':root'
RootSelector == <<":", "r", "o", "o", "t">>

\* the smallest and the largest element of a set of numbers
Min(S) == CHOOSE x \in S : \A y \in S : x <= y
Max(S) == CHOOSE x \in S : \A y \in S : x >= y

\* the k-th smallest element of a set of numbers
KthSmallest(S, k) == CHOOSE i \in S : Cardinality({j \in S : j <= i}) = k

\* text.split('\n'): the pieces between consecutive line breaks
Split(s) ==
    LET breaks == {i \in 1..Len(s) : s[i] = "\n"}
        n == Cardinality(breaks)
        at(k) == IF k = 0 THEN 0
                 ELSE IF k = n + 1 THEN Len(s) + 1
                 ELSE KthSmallest(breaks, k)
    IN  [k \in 1..(n + 1) |-> SubSeq(s, at(k - 1) + 1, at(k) - 1)]

RECURSIVE Join(_)
\* lines.join('\n')
Join(ls) ==
    IF Len(ls) = 0 THEN <<>>
    ELSE IF Len(ls) = 1 THEN ls[1]
    ELSE LET h == Len(ls) \div 2
         IN  Join(SubSeq(ls, 1, h)) \o <<"\n">>
                \o Join(SubSeq(ls, h + 1, Len(ls)))

\* the indices at or after i where "*/" starts
CommentEnds(s, i) ==
    {j \in i..(Len(s) - 1) : s[j] = "*" /\ s[j + 1] = "/"}

\* the indices at or after i where /\/\*[\s\S]*?\*\// matches
CommentStarts(s, i) ==
    {k \in i..(Len(s) - 1) :
        s[k] = "/" /\ s[k + 1] = "*" /\ CommentEnds(s, k + 2) # {}}

RECURSIVE StripFrom(_, _)
\* the text from index i on without its matches: the leftmost match is
\* removed up to its nearest "*/" and the scan resumes after it
StripFrom(s, i) ==
    IF CommentStarts(s, i) = {} THEN SubSeq(s, i, Len(s))
    ELSE LET k == Min(CommentStarts(s, i))
             e == Min(CommentEnds(s, k + 2))
         IN  SubSeq(s, i, k - 1) \o StripFrom(s, e + 2)

\* cssContent.replace(/\/\*[\s\S]*?\*\//g, '')
StripCommentsMutant(s) == s
StripComments(s) == StripFrom(s, 1)

\* \s* from index i, greedy: the index of the first character at or after
\* i that is not a space (one past the end when there is none)
SkipSpaces(s, i) ==
    Min({k \in i..Len(s) : s[k] \notin Space} \cup {Len(s) + 1})

\* the index of the last character at or before j that is not a space
SkipSpacesBack(s, j) ==
    Max({k \in 1..j : s[k] \notin Space} \cup {0})

\* String.prototype.trim
Trim(s) ==
    LET a == SkipSpaces(s, 1)
        b == SkipSpacesBack(s, Len(s))
    IN  IF a > b THEN <<>> ELSE SubSeq(s, a, b)

\* s.replace(/\s+/g, ' '): every run of spaces becomes one blank
NormalizeSpaces(s) ==
    LET kept == {i \in 1..Len(s) :
                    s[i] \notin Space \/ i = 1 \/ s[i - 1] \notin Space}
    IN  [k \in 1..Cardinality(kept) |->
            IF s[KthSmallest(kept, k)] \in Space THEN " "
            ELSE s[KthSmallest(kept, k)]]

\* hay.includes(needle)
Includes(hay, needle) ==
    \E k \in 0..(Len(hay) - Len(needle)) :
        SubSeq(hay, k + 1, k + Len(needle)) = needle

\* s.includes(c) for one character
HasChar(s, c) == \E k \in 1..Len(s) : s[k] = c

\* s.slice(0, n)
SliceTo(s, n) == IF Len(s) <= n THEN s ELSE SubSeq(s, 1, n)

\* [\w-]+ from index i, greedy: the index after the run
NameEnd(s, i) ==
    Min({k \in i..Len(s) : s[k] \notin NameChars} \cup {Len(s) + 1})

\* index of the first ';' at or after i, 0 when there is none
IndexOfSemi(s, i) ==
    IF {k \in i..Len(s) : s[k] = ";"} = {} THEN 0
    ELSE Min({k \in i..Len(s) : s[k] = ";"})

NoMatch == [ok |-> FALSE]

\* \s*:\s*([^;]+); from index i.  \s* is greedy; when nothing but the
\* semicolon follows it, it gives one space back to [^;]+
MatchTail(s, i) ==
    LET c == SkipSpaces(s, i)
    IN  IF c > Len(s) \/ s[c] # ":" THEN NoMatch
        ELSE LET v == SkipSpaces(s, c + 1)
             IN  IF v > Len(s) THEN NoMatch
                 ELSE IF s[v] = ";"
                 THEN IF v > c + 1
                      THEN [ok |-> TRUE, vs |-> v - 1, se |-> v]
                      ELSE NoMatch
                 ELSE IF IndexOfSemi(s, v) = 0 THEN NoMatch
                 ELSE [ok |-> TRUE, vs |-> v, se |-> IndexOfSemi(s, v)]

\* line.match(/^\s*(--[\w-]+)\s*:\s*([^;]+);/)
MatchDeclaration(line) ==
    LET a == SkipSpaces(line, 1)
    IN  IF ~(a + 1 <= Len(line) /\ line[a] = "-" /\ line[a + 1] = "-")
        THEN NoMatch
        ELSE LET e == NameEnd(line, a + 2)
             IN  IF e = a + 2 THEN NoMatch
                 ELSE LET t == MatchTail(line, e)
                      IN  IF ~t.ok THEN NoMatch
                          ELSE [ok |-> TRUE,
                                name |-> SubSeq(line, a, e - 1),
                                value |-> SubSeq(line, t.vs, t.se - 1)]

\* line.match(new RegExp(`^(\\s*)(${escapeRegex(varName)})(\\s*:\\s*)([^;]+)(;)`))
\* escapeRegex makes the pattern match varName literally
MatchVariable(line, varName) ==
    LET a == SkipSpaces(line, 1)
        e == a + Len(varName)
    IN  IF ~(e - 1 <= Len(line) /\ SubSeq(line, a, e - 1) = varName)
        THEN NoMatch
        ELSE LET t == MatchTail(line, e)
             IN  IF ~t.ok THEN NoMatch
                 ELSE [ok |-> TRUE,
                       m1 |-> SubSeq(line, 1, a - 1),
                       m2 |-> varName,
                       m3 |-> SubSeq(line, e, t.vs - 1),
                       m4 |-> SubSeq(line, t.vs, t.se - 1),
                       m5 |-> <<";">>]

(***************************************************************************)
(* extractVariables                                                        *)
(***************************************************************************)
\* selectorBuffer.trim().replace(/\s+/g, ' ')
SelectorText(buffer, before) == NormalizeSpaces(Trim(buffer \o before))

\* the columns at or after j that hold a brace
BracesFrom(line, j) == {k \in j..Len(line) : line[k] \in {"{", "}"}}

\* extractVariables at the brace in column j
AtBrace(line, j, st) ==
    IF line[j] = "{"
    THEN IF st.depth = 0
         THEN [st EXCEPT !.depth = 1,
                 !.cur = SelectorText(st.buf, SubSeq(line, 1, j - 1)),
                 !.buf = <<>>]
         ELSE [st EXCEPT !.depth = @ + 1]
    ELSE IF st.depth - 1 = 0
         THEN [st EXCEPT !.depth = 0, !.cur = <<>>, !.buf = <<>>]
         ELSE [st EXCEPT !.depth = @ - 1]

RECURSIVE ScanBraces(_, _, _)
\* the character loop of extractVariables over one line, from column j:
\* only the braces change the state
ScanBraces(line, j, st) ==
    IF BracesFrom(line, j) = {} THEN st
    ELSE ScanBraces(line, Min(BracesFrom(line, j)) + 1,
                    AtBrace(line, Min(BracesFrom(line, j)), st))

\* the accumulation of top-level lines without braces into selectorBuffer
Accumulate(line, st) ==
    IF ~HasChar(line, "{") /\ ~HasChar(line, "}") /\ st.depth = 0
          /\ Trim(line) # <<>>
    THEN [st EXCEPT !.buf = (IF @ # <<>> THEN @ \o <<" ">> ELSE @) \o Trim(line)]
    ELSE st

\* the while loop that advances originalLineIndex to the first line from
\* it on that includes the needle, or past the last line (kept 1-based
\* here: the value is originalLineIndex + 1, the lineNumber)
MapLineMutant(originalLines, n, needle) == n
MapLine(originalLines, n, needle) ==
    Min({k \in n..Len(originalLines) : Includes(originalLines[k], needle)}
        \cup {Len(originalLines) + 1})

\* the body of the loop over the comment-free lines for one line; st.n is
\* the line number reached in the original text
ExtractLine(line, originalLines, st) ==
    LET lineNumber == MapLine(originalLines, st.n,
                              SliceTo(Trim(line), PrefixLength))
        s1 == Accumulate(line, ScanBraces(line, 1, st))
        m == MatchDeclaration(line)
    IN  IF s1.depth > 0 /\ m.ok
        THEN [s1 EXCEPT !.n = lineNumber,
                        !.variables = Append(@,
                           [name |-> m.name,
                            value |-> Trim(m.value),
                            line |-> lineNumber,
                            selector |-> IF s1.cur # <<>> THEN s1.cur
                                         ELSE RootSelector])]
        ELSE [s1 EXCEPT !.n = lineNumber]

RECURSIVE ExtractFrom(_, _, _, _)
ExtractFrom(lines, i, originalLines, st) ==
    IF i > Len(lines) THEN st.variables
    ELSE ExtractFrom(lines, i + 1, originalLines,
                     ExtractLine(lines[i], originalLines, st))

\* the comment-free text scanned against the original's lines
ScanText(contentNoComments, cssContent) ==
    ExtractFrom(Split(contentNoComments), 1, Split(cssContent),
                [depth |-> 0, cur |-> <<>>, buf |-> <<>>, n |-> 1,
                 variables |-> <<>>])

extractVariables(cssContent) ==
    ScanText(StripComments(cssContent), cssContent)

(***************************************************************************)
(* updateVariable                                                          *)
(***************************************************************************)
\* updateVariable at the brace in column j
TrackBrace(line, j, st) ==
    IF line[j] = "{"
    THEN IF st.depth = 0
         THEN [st EXCEPT !.depth = 1,
                 !.cur = Trim(st.start \o Trim(SubSeq(line, 1, j - 1))),
                 !.start = <<>>]
         ELSE [st EXCEPT !.depth = @ + 1]
    ELSE IF st.depth - 1 = 0
         THEN [st EXCEPT !.depth = 0, !.cur = <<>>]
         ELSE [st EXCEPT !.depth = @ - 1]

RECURSIVE TrackBraces(_, _, _)
\* the character loop of updateVariable over one line, from column j
TrackBraces(line, j, st) ==
    IF BracesFrom(line, j) = {} THEN st
    ELSE TrackBraces(line, Min(BracesFrom(line, j)) + 1,
                     TrackBrace(line, Min(BracesFrom(line, j)), st))

\* selectorStart += line, for a top-level line without braces
AccumulateStart(line, st) ==
    IF ~HasChar(line, "{") /\ ~HasChar(line, "}") /\ st.depth = 0
    THEN [st EXCEPT !.start = @ \o line]
    ELSE st

\* shouldUpdate
ShouldUpdateMutant(selector, changed, currentSelector) == TRUE
ShouldUpdate(selector, changed, currentSelector) ==
    IF selector = NullSelector THEN ~changed
    ELSE selector = AllSelector \/ currentSelector = selector

\* the rewritten line
ReplacementMutant(m, newValue) == m.m2 \o m.m3 \o newValue \o m.m5
Replacement(m, newValue) == m.m1 \o m.m2 \o m.m3 \o newValue \o m.m5

\* if (selector === null) break
StopsAfterUpdate(selector) == selector = NullSelector

\* the body of the loop over the lines of updateVariable for line i;
\* st.done is set by the break
UpdateLine(i, varName, newValue, selector, st) ==
    LET line == st.lines[i]
        s1 == AccumulateStart(line, TrackBraces(line, 1, st))
        m == MatchVariable(line, varName)
    IN  IF s1.depth > 0 /\ m.ok
        THEN IF ShouldUpdate(selector, s1.changed, s1.cur)
             THEN [s1 EXCEPT !.occurrences = @ + 1,
                             !.lines[i] = Replacement(m, newValue),
                             !.changed = TRUE,
                             !.done = StopsAfterUpdate(selector)]
             ELSE [s1 EXCEPT !.occurrences = @ + 1]
        ELSE s1

RECURSIVE UpdateFrom(_, _, _, _, _)
UpdateFrom(i, varName, newValue, selector, st) ==
    IF st.done \/ i > Len(st.lines) THEN st
    ELSE UpdateFrom(i + 1, varName, newValue, selector,
                    UpdateLine(i, varName, newValue, selector, st))

\* the lines are joined and a line break is added at the end
ContentMutant(lines) == Join(lines) \o <<"\n">>

\* content: lines.join('\n')
Content(lines) == Join(lines)

updateVariable(cssContent, varName, newValue, selector) ==
    LET st == UpdateFrom(1, varName, newValue, selector,
                         [depth |-> 0, cur |-> <<>>, start |-> <<>>,
                          lines |-> Split(cssContent), occurrences |-> 0,
                          changed |-> FALSE, done |-> FALSE])
    IN  [content |-> Content(st.lines), changed |-> st.changed,
         occurrences |-> st.occurrences]

\* variables.find(v => v.name === varName), as findVariableFile does
FindVariable(variables, varName) ==
    LET hits == {k \in 1..Len(variables) : variables[k].name = varName}
    IN  IF hits = {} THEN 0
        ELSE CHOOSE k \in hits : \A h \in hits : k <= h

(***************************************************************************)
(* Input texts.  A text is composed of items of a small library; an item   *)
(* is a sequence of parts, and every part carries, next to its characters  *)
(* c, what it is by construction: sc, its characters once comments are     *)
(* removed; d, whether it is a line that starts with a custom-property     *)
(* declaration; live, whether that declaration is outside every comment;   *)
(* name; pre, the line up to the value; raw, the characters between the    *)
(* separator and the semicolon; xval, the value proper.                    *)
(***************************************************************************)
\* the number of library items a text is composed of
MaxItems == 2

Txt(chars) ==
    [c |-> chars, sc |-> chars, d |-> FALSE, live |-> FALSE, name |-> <<>>,
     pre |-> <<>>, raw |-> <<>>, xval |-> <<>>]

\* text inside a block comment
Cmt(chars) == [Txt(chars) EXCEPT !.sc = <<>>]

NL == Txt(<<"\n">>)

\* a line break inside a block comment
CNL == Cmt(<<"\n">>)

\* the line  <ind><name><sep><core><ws>;
Decl(ind, name, sep, core, ws) ==
    [c |-> ind \o name \o sep \o core \o ws \o <<";">>,
     sc |-> ind \o name \o sep \o core \o ws \o <<";">>,
     d |-> TRUE, live |-> TRUE, name |-> name,
     pre |-> ind \o name \o sep, raw |-> core \o ws, xval |-> core]

\* the same line inside a block comment
CDecl(ind, name, sep, core) ==
    [Decl(ind, name, sep, core, <<>>) EXCEPT !.sc = <<>>, !.live = FALSE]

\* the line  <ind><name><sep><cmt><ws><core>;  with a comment before the value
VDecl(ind, name, sep, cmt, ws, core) ==
    [c |-> ind \o name \o sep \o cmt \o ws \o core \o <<";">>,
     sc |-> ind \o name \o sep \o ws \o core \o <<";">>,
     d |-> TRUE, live |-> TRUE, name |-> name,
     pre |-> ind \o name \o sep, raw |-> cmt \o ws \o core, xval |-> core]

\* the line  <ind><name><sep><core>;  of a property that is not custom
Prop(ind, name, sep, core) ==
    [Txt(ind \o name \o sep \o core \o <<";">>) EXCEPT
        !.name = name, !.pre = ind \o name \o sep, !.raw = core,
        !.xval = core]

\* custom-property names of the inputs
NameA == <<"-", "-", "a">>
NameB == <<"-", "-", "b">>
NameZ == <<"-", "-", "z", "z">>
NameHover == <<"-", "-", "c", "o", "l", "o", "r", "-", "p", "r", "i", "m",
               "a", "r", "y", "-", "h", "o", "v", "e", "r">>
NameHoverB == <<"-", "-", "c", "o", "l", "o", "r", "-", "p", "r", "i", "m",
                "a", "r", "y", "-", "h", "o", "v", "e", "r", "-", "b">>


\* RootBlock:
\*     :root {
\*       --a: 1;
\*       --b: 2;
\*     }
RootBlock ==
    [sel |-> <<":", "r", "o", "o", "t">>,
     nsel |-> <<":", "r", "o", "o", "t">>,
     parts |-> <<
        Txt(<<":", "r", "o", "o", "t", " ", "{">>),
        NL,
        Decl(<<" ", " ">>, NameA, <<":", " ">>, <<"1">>, <<>>),
        NL,
        Decl(<<" ", " ">>, NameB, <<":", " ">>, <<"2">>, <<>>),
        NL,
        Txt(<<"}">>)
     >>]

\* DarkBlock:
\*     .d {
\*       --a: 3;
\*     }
DarkBlock ==
    [sel |-> <<".", "d">>,
     nsel |-> <<".", "d">>,
     parts |-> <<
        Txt(<<".", "d", " ", "{">>),
        NL,
        Decl(<<" ", " ">>, NameA, <<":", " ">>, <<"3">>, <<>>),
        NL,
        Txt(<<"}">>)
     >>]

\* ImportLine:
\*     @import x;
ImportLine ==
    [sel |-> <<>>,
     nsel |-> <<>>,
     parts |-> <<
        Txt(<<"@", "i", "m", "p", "o", "r", "t", " ", "x", ";">>)
     >>]

\* HeaderComment:
\*     /* t */
HeaderComment ==
    [sel |-> <<>>,
     nsel |-> <<>>,
     parts |-> <<
        Cmt(<<"/", "*", " ", "t", " ", "*", "/">>)
     >>]

\* CommentedBlock:
\*     /*
\*     .d {
\*       --a: 3;
\*     }
\*     */
CommentedBlock ==
    [sel |-> <<>>,
     nsel |-> <<>>,
     parts |-> <<
        Cmt(<<"/", "*">>),
        CNL,
        Cmt(<<".", "d", " ", "{">>),
        CNL,
        CDecl(<<" ", " ">>, NameA, <<":", " ">>, <<"3">>),
        CNL,
        Cmt(<<"}">>),
        CNL,
        Cmt(<<"*", "/">>)
     >>]

\* BraceComment:
\*     /* } */
BraceComment ==
    [sel |-> <<>>,
     nsel |-> <<>>,
     parts |-> <<
        Cmt(<<"/", "*", " ", "}", " ", "*", "/">>)
     >>]

\* SpacedBlock:
\*     .e   .f {
\*     <TAB>--b : 4 ; /* u */
\*     }
SpacedBlock ==
    [sel |-> <<".", "e", " ", " ", " ", ".", "f">>,
     nsel |-> <<".", "e", " ", ".", "f">>,
     parts |-> <<
        Txt(<<".", "e", " ", " ", " ", ".", "f", " ", "{">>),
        NL,
        Decl(<<"\t">>, NameB, <<" ", ":", " ">>, <<"4">>, <<" ">>),
        Txt(<<" ">>),
        Cmt(<<"/", "*", " ", "u", " ", "*", "/">>),
        NL,
        Txt(<<"}">>)
     >>]

\* NestedBlock:
\*     @media m {
\*       .d {
\*         --a: 6; }
\*     }
NestedBlock ==
    [sel |-> <<"@", "m", "e", "d", "i", "a", " ", "m">>,
     nsel |-> <<"@", "m", "e", "d", "i", "a", " ", "m">>,
     parts |-> <<
        Txt(<<"@", "m", "e", "d", "i", "a", " ", "m", " ", "{">>),
        NL,
        Txt(<<" ", " ", ".", "d", " ", "{">>),
        NL,
        Decl(<<" ", " ", " ", " ">>, NameA, <<":", " ">>, <<"6">>, <<>>),
        Txt(<<" ", "}">>),
        NL,
        Txt(<<"}">>)
     >>]

\* ValueCommentBlock:
\*     .g {
\*       --a: /* c */ 7;
\*     }
ValueCommentBlock ==
    [sel |-> <<".", "g">>,
     nsel |-> <<".", "g">>,
     parts |-> <<
        Txt(<<".", "g", " ", "{">>),
        NL,
        VDecl(<<" ", " ">>, NameA, <<":", " ">>, <<"/", "*", " ", "c", " ",
          "*", "/">>, <<" ">>, <<"7">>),
        NL,
        Txt(<<"}">>)
     >>]

\* HoverBlock:
\*     .h {
\*       --color-primary-hover: 8;
\*       --color-primary-hover-b: 5;
\*     }
HoverBlock ==
    [sel |-> <<".", "h">>,
     nsel |-> <<".", "h">>,
     parts |-> <<
        Txt(<<".", "h", " ", "{">>),
        NL,
        Decl(<<" ", " ">>, NameHover, <<":", " ">>, <<"8">>, <<>>),
        NL,
        Decl(<<" ", " ">>, NameHoverB, <<":", " ">>, <<"5">>, <<>>),
        NL,
        Txt(<<"}">>)
     >>]

NameGap == <<"-", "-", "g", "a", "p">>
Gap == <<"g", "a", "p">>
RowGap == <<"r", "o", "w", "-", "g", "a", "p">>

\* GapBlock:
\*     .p {
\*       gap: 4;
\*       --gap: 1;
\*       row-gap: 2;
\*       gap: 5;
\*     }
GapBlock ==
    [sel |-> <<".", "p">>,
     nsel |-> <<".", "p">>,
     parts |-> <<
        Txt(<<".", "p", " ", "{">>),
        NL,
        Prop(<<" ", " ">>, Gap, <<":", " ">>, <<"4">>),
        NL,
        Decl(<<" ", " ">>, NameGap, <<":", " ">>, <<"1">>, <<>>),
        NL,
        Prop(<<" ", " ">>, RowGap, <<":", " ">>, <<"2">>),
        NL,
        Prop(<<" ", " ">>, Gap, <<":", " ">>, <<"5">>),
        NL,
        Txt(<<"}">>)
     >>]

\* GridBlock:
\*     .q {
\*     <TAB>gap: 6;
\*     }
GridBlock ==
    [sel |-> <<".", "q">>,
     nsel |-> <<".", "q">>,
     parts |-> <<
        Txt(<<".", "q", " ", "{">>),
        NL,
        Prop(<<"\t">>, Gap, <<":", " ">>, <<"6">>),
        NL,
        Txt(<<"}">>)
     >>]

Items == <<RootBlock, DarkBlock, ImportLine, HeaderComment,
          CommentedBlock, BraceComment, SpacedBlock, NestedBlock,
          ValueCommentBlock, HoverBlock, GapBlock, GridBlock>>

\* the texts: every sequence of at most MaxItems library items
Docs == UNION {[1..n -> 1..Len(Items)] : n \in 0..MaxItems}

\* the parts of the item at position it, each tagged with that position
TagParts(parts, it) == [k \in 1..Len(parts) |-> [p |-> parts[k], it |-> it]]

RECURSIVE PartsFrom(_, _)
\* the items' parts in order, a line break between two items
PartsFrom(comp, i) ==
    IF i > Len(comp) THEN <<>>
    ELSE (IF i > 1 THEN <<[p |-> NL, it |-> 0]>> ELSE <<>>)
         \o TagParts(Items[comp[i]].parts, i) \o PartsFrom(comp, i + 1)

DocParts(comp) == PartsFrom(comp, 1)

RECURSIVE Concat(_)
\* the concatenation of a sequence of texts
Concat(ts) ==
    IF Len(ts) = 0 THEN <<>>
    ELSE IF Len(ts) = 1 THEN ts[1]
    ELSE LET h == Len(ts) \div 2
         IN  Concat(SubSeq(ts, 1, h)) \o Concat(SubSeq(ts, h + 1, Len(ts)))

\* the text of a composition, and the same text without its comments
TextOf(comp) ==
    LET ps == DocParts(comp) IN Concat([k \in 1..Len(ps) |-> ps[k].p.c])
StrippedOf(comp) ==
    LET ps == DocParts(comp) IN Concat([k \in 1..Len(ps) |-> ps[k].p.sc])

(***************************************************************************)
(* Calls of the parser and the mutator on a text                           *)
(***************************************************************************)
\* the value every edit writes
NewValue == <<"9">>

\* the selectors asked for
SelectorArgs ==
    {NullSelector, AllSelector, RootSelector, <<".", "d">>,
     <<".", "e", " ", ".", "f">>, <<".", "z", "z">>}

NameArgs == {NameA, NameB, NameZ, NameHover}

\* the arguments updateVariable is called with: an edit, or the value that
\* extractVariables reports for the first declaration of a name
UpdateArgs(text) ==
    LET found == extractVariables(text)
    IN  {[varName |-> n, newValue |-> NewValue, selector |-> s] :
            n \in NameArgs, s \in SelectorArgs}
        \cup
        {[varName |-> found[k].name, newValue |-> found[k].value,
          selector |-> NullSelector] :
            k \in {j \in 1..Len(found) :
                      j = FindVariable(found, found[j].name)}}

CssInit ==
    /\ PopupIdle /\ ServerIdle /\ StoreIdle /\ MapIdle
    /\ doc \in Docs
    /\ cssText = TextOf(doc)
    /\ call = NoCall
    /\ result = <<>>

CallExtract ==
    /\ call = NoCall
    /\ call' = [fn |-> "extractVariables"]
    /\ result' = extractVariables(cssText)
    /\ UNCHANGED <<doc, cssText, offCssVars>>

CallUpdate ==
    /\ call = NoCall
    /\ \E a \in UpdateArgs(cssText) :
          /\ call' = [fn |-> "updateVariable", varName |-> a.varName,
                      newValue |-> a.newValue, selector |-> a.selector]
          /\ result' = updateVariable(cssText, a.varName, a.newValue,
                                      a.selector)
    /\ UNCHANGED <<doc, cssText, offCssVars>>

\* the commit path: updateVariable is called for a declaration that
\* extractVariables returned, with the declaration's selector, or, for the
\* first declaration of a name, without one as findVariableFile's caller does
CallUpdateFound ==
    /\ call = NoCall
    /\ LET found == extractVariables(cssText)
       IN  \E k \in 1..Len(found), withSelector \in BOOLEAN :
           LET selector == IF withSelector THEN found[k].selector
                           ELSE NullSelector
           IN /\ ~withSelector => k = FindVariable(found, found[k].name)
              /\ call' = [fn |-> "updateVariable",
                          varName |-> found[k].name, newValue |-> NewValue,
                          selector |-> selector, of |-> k]
              /\ result' = updateVariable(cssText, found[k].name, NewValue,
                                          selector)
    /\ UNCHANGED <<doc, cssText, offCssVars>>

CssNext ==
    \/ CallExtract
    \/ CallUpdate
    \/ CallUpdateFound

\* the parser and the mutator called on a text; the popup stays closed
CssSpec == CssInit /\ [][CssNext]_allVars

\* the popup session; no text is loaded
PopupSpec == PopupInit /\ [][PopupNext]_allVars

(***************************************************************************)
(* Properties of the popup                                                 *)
(***************************************************************************)
\* C1: a discovery result that arrives for a show() call whose request id
\* is older than the popup's current one is discarded (the call ends
\* without touching the element, the tokens, the tab or the visibility),
\* and whenever the popup's tokens are written they are the tokens of the
\* newest request and of the element it was shown for.
C1_StaleResultDiscarded ==
    [][ /\ \A id \in PendingIds :
             (id < requestId /\ calls'[id].pc \notin StageNames)
                => /\ calls'[id].pc = "stale"
                   /\ UNCHANGED <<elementInfo, grouped, activeTab, display>>
        /\ (grouped' # grouped /\ grouped' # {})
             => \A t \in grouped' : t.req = requestId' /\ t.elem = elementInfo'
      ]_popupVars

\* C1 witness: show(A) was still awaiting discovery when show(B) took the
\* next request id; A's result has arrived and was dropped, B's is rendered.
C1_Witness ==
    \E a \in DOMAIN calls, b \in DOMAIN calls :
        /\ b = a + 1
        /\ calls[a].pc = "stale"
        /\ calls[b].pc = "done"
        /\ calls[b].elem \notin LocalElements
        /\ calls[a].elem # calls[b].elem
        /\ requestId = b
        /\ display = "block"
        /\ elementInfo = calls[b].elem
        /\ grouped # {}
        /\ \A t \in grouped : t.req = b /\ t.elem = calls[b].elem

\* C13: discoverVariables never rejects, and resolves to the empty array
\* when no API key is configured, on a network error, on a non-OK status
\* and on a response without a parsable JSON array; when the last discovery
\* of the current show() call ends so, show() completes for its element:
\* the popup is displayed with no token and no tab.
C13_FailureIsEmptyResult ==
    [][/\ settled' # settled =>
            /\ ~settled'.rejected
            /\ settled'.kind \in Failures => settled'.variables = <<>>
       /\ \A id \in PendingIds :
            (/\ calls'[id].pc # calls[id].pc
             /\ calls[id].pc = "typography"
             /\ settled'.kind \in Failures
             /\ id = requestId)
                => /\ calls'[id].pc = "done"
                   /\ display' = "block"
                   /\ grouped' = {}
                   /\ activeTab' = "null"
                   /\ elementInfo' = calls[id].elem
                   /\ requestId' = requestId
      ]_<<popupVars, settled>>

\* C13 witness: the three discoveries of the current show() call have
\* failed, the last one on a network error, and the empty popup is shown
C13_Witness ==
    /\ settled.kind = "network"
    /\ requestId \in DOMAIN calls
    /\ calls[requestId].pc = "done"
    /\ calls[requestId].elem \notin LocalElements
    /\ display = "block"
    /\ grouped = {}
    /\ elementInfo = calls[requestId].elem

\* C2: closing the inspection UI through Ektachrome.deactivate() (which
\* calls ToolbarPopup.hide()) while show() calls are suspended on remote
\* discovery moves the request counter past every one of them.
C2_HideInvalidatesPending ==
    [][ (active /\ ~active') => \A id \in PendingIds : requestId' > id
      ]_popupVars

\* C21: show() starts remote discovery only when direct detection and the
\* variable map together yield nothing: when either yields a variable for
\* the element, the call issues no remote request and completes in the
\* same step, the popup displayed with that element's tokens.
C21_DiscoveryOnlyWhenEmpty ==
    [][\A id \in DOMAIN calls' :
          LET e == calls'[id].elem
          IN  (e \in DirectElements \/ e \in MappedElements)
                 => /\ calls'[id].pc = "done"
                    /\ id \notin DOMAIN calls
                         => /\ display' = "block"
                            /\ elementInfo' = e
                            /\ requestId' = id
                            /\ grouped' # {}
                            /\ \A t \in grouped' : t.elem = e /\ t.req = id
      ]_popupVars

\* C21 witness: the element whose only token comes from the variable map
\* was selected while an earlier call was awaiting discovery; its popup is
\* displayed with that token and its call is over
C21_Witness ==
    \E id \in DOMAIN calls :
        /\ id = requestId
        /\ calls[id].elem \in MappedElements \ DirectElements
        /\ calls[id].pc = "done"
        /\ display = "block"
        /\ grouped = {PopupToken(calls[id].elem, id, "spacing", "--y")}
        /\ \E a \in DOMAIN calls : a < id /\ calls[a].pc \in StageNames

\* C25: the gesture that selects a page element while the picker is
\* active never reaches the page: the picker cancels its mousedown and the
\* click event that follows it on that element.
C25_SelectingGestureCancelled ==
    (gesture.phase = "click" /\ gesture.selects)
        => gesture.downCancelled /\ gesture.clickCancelled

\* C26: an active session whose popup is neither displayed nor resolving
\* a selection (no show() call is awaiting discovery) has its picker
\* active: it never gets stuck with the picker off and no popup whose
\* closing would re-arm it.
C26_ActiveSessionCanSelect ==
    (active /\ display = "none" /\ PendingIds = {}) => pickerActive

\* C28: whenever the popup holds both an element and grouped tokens, the
\* tokens were resolved for that element; this holds also while a show()
\* call is suspended on remote discovery, so that no render combines the
\* header of one element with the tokens of another.
C28_TokensOfTheElementShown ==
    (elementInfo # NoElement /\ grouped # {})
        => \A t \in grouped : t.elem = elementInfo

(***************************************************************************)
(* What a text is by construction                                          *)
(***************************************************************************)
\* the characters of the parts of a text, and the same without comments
RawTexts(ps) == [k \in 1..Len(ps) |-> ps[k].p.c]
StrippedTexts(ps) == [k \in 1..Len(ps) |-> ps[k].p.sc]

Break == <<"\n">>

\* the 1-based line on which the k-th of the texts ts lies
LineOf(ts, k) == 1 + Cardinality({j \in 1..(k - 1) : ts[j] = Break})

NumLines(ts) == 1 + Cardinality({j \in 1..Len(ts) : ts[j] = Break})

\* the characters of line n
LineText(ts, n) ==
    LET on == {j \in 1..Len(ts) : LineOf(ts, j) = n /\ ts[j] # Break}
    IN  IF on = {} THEN <<>> ELSE Concat(SubSeq(ts, Min(on), Max(on)))

\* the custom-property declarations of a text (comments hold none), as
\* positions among its parts; those of one name; in source order
Declarations(ps) == {k \in 1..Len(ps) : ps[k].p.d /\ ps[k].p.live}
DeclarationsOf(ps, varName) ==
    {k \in Declarations(ps) : ps[k].p.name = varName}
DeclSeq(ps) ==
    [n \in 1..Cardinality(Declarations(ps)) |->
        KthSmallest(Declarations(ps), n)]

\* the lines that look like a declaration of varName, comments included
DeclLinesOf(ps, varName) ==
    {k \in 1..Len(ps) : ps[k].p.d /\ ps[k].p.name = varName}

\* the normalized selector text of the outermost block of the part at k
SelectorOf(d, ps, k) == Items[d[ps[k].it]].nsel

CommentFree(ps) == \A k \in 1..Len(ps) : ps[k].p.sc = ps[k].p.c

StartsWith(s, prefix) ==
    Len(s) >= Len(prefix) /\ SubSeq(s, 1, Len(prefix)) = prefix

\* the returned content differs from the input in the lines of the
\* declarations at the positions in target, each rewritten with newValue,
\* and in no other line
RewritesExactly(ps, target, content, newValue) ==
    LET out == Split(content)
        raw == RawTexts(ps)
    IN  /\ Len(out) = NumLines(raw)
        /\ \A n \in 1..NumLines(raw) :
              IF \E k \in target : LineOf(raw, k) = n
              THEN \A k \in target :
                      LineOf(raw, k) = n
                         => StartsWith(out[n],
                               ps[k].p.pre \o newValue \o <<";">>)
              ELSE out[n] = LineText(raw, n)

IsEdit == call.fn = "updateVariable" /\ call.newValue = NewValue

\* the braces in the lines up to line n, and the brace depth after line n
BracesUpTo(ts, ch, n) ==
    UNION {{<<j, i>> : i \in {i \in 1..Len(ts[j]) : ts[j][i] = ch}} :
              j \in {j \in 1..Len(ts) : LineOf(ts, j) <= n}}
DepthAfterLine(ts, n) ==
    Cardinality(BracesUpTo(ts, "{", n)) - Cardinality(BracesUpTo(ts, "}", n))

\* the lines that read as a declaration of varName inside a block when
\* comments are read as ordinary text
BlockLinesOf(ps, varName) ==
    {k \in DeclLinesOf(ps, varName) :
        DepthAfterLine(RawTexts(ps), LineOf(RawTexts(ps), k)) > 0}

(***************************************************************************)
(* Properties of updateVariable                                            *)
(***************************************************************************)
\* C3: updateVariable without a selector rewrites the first declaration of
\* varName in the text and no other line, so that every later declaration
\* keeps its value; occurrences is 1 when the text declares varName and 0
\* when it does not (and then nothing is rewritten).
C3_FirstDeclarationOnly ==
    (IsEdit /\ call.selector = NullSelector) =>
        LET ps == DocParts(doc)
            D == DeclarationsOf(ps, call.varName)
        IN  IF D = {}
            THEN result.occurrences = 0 /\ result.content = cssText
            ELSE /\ result.occurrences = 1
                 /\ RewritesExactly(ps, {Min(D)}, result.content, NewValue)

\* C4: updateVariable with selector '*' rewrites every declaration of
\* varName in the text and no other line, and occurrences is the number of
\* declarations of varName in the text.
C4_EveryDeclaration ==
    (IsEdit /\ call.selector = AllSelector) =>
        LET ps == DocParts(doc)
            D == DeclarationsOf(ps, call.varName)
        IN  /\ result.occurrences = Cardinality(D)
            /\ RewritesExactly(ps, D, result.content, NewValue)

\* C5: updateVariable with a specific selector S rewrites exactly the
\* declarations of varName whose block has the normalized selector text S,
\* leaves every other line as it is, and occurrences is the number of
\* declarations of varName in the whole text.
C5_SelectorDeclarationsOnly ==
    (IsEdit /\ call.selector \notin {NullSelector, AllSelector}) =>
        LET ps == DocParts(doc)
            D == DeclarationsOf(ps, call.varName)
        IN  /\ result.occurrences = Cardinality(D)
            /\ RewritesExactly(ps,
                  {k \in D : SelectorOf(doc, ps, k) = call.selector},
                  result.content, NewValue)

\* C6: for every call of updateVariable, changed is true exactly when a
\* line was replaced: with changed false the content is the input, byte
\* for byte, and with changed true some line that reads as a declaration of
\* varName has become its indentation, name and separator followed by
\* newValue and ';'.  When no line of the text declares varName, or no
\* block has the requested selector, the call returns changed false and the
\* input as content (and, for an undeclared name, occurrences 0).
C6_ChangedIffReplaced ==
    call.fn = "updateVariable" =>
        LET ps == DocParts(doc)
            raw == RawTexts(ps)
            out == Split(result.content)
        IN  /\ ~result.changed => result.content = cssText
            /\ result.changed =>
                  /\ Len(out) = NumLines(raw)
                  /\ \E k \in DeclLinesOf(ps, call.varName) :
                        out[LineOf(raw, k)] =
                           ps[k].p.pre \o call.newValue \o <<";">>
            /\ DeclLinesOf(ps, call.varName) = {} =>
                  /\ ~result.changed
                  /\ result.occurrences = 0
                  /\ result.content = cssText
            /\ call.selector = <<".", "z", "z">> =>
                  ~result.changed /\ result.content = cssText

\* C6 witness: the text declares the variable, but in no block of the
\* requested selector; the declarations were counted and none was replaced.
C6_Witness ==
    /\ call.fn = "updateVariable"
    /\ call.selector = <<".", "z", "z">>
    /\ DeclarationsOf(DocParts(doc), call.varName) # {}
    /\ result.occurrences > 0
    /\ ~result.changed
    /\ result.content = cssText

\* C7: calling updateVariable, without a selector, with the value that
\* extractVariables reports for the (first) declaration of a name returns
\* changed true and a content byte-identical to the input.
C7_RoundTripIdentical ==
    (call.fn = "updateVariable" /\ call.selector = NullSelector) =>
        LET ps == DocParts(doc)
            D == DeclarationsOf(ps, call.varName)
        IN  (D # {} /\ call.newValue = ps[Min(D)].p.xval)
               => result.changed /\ result.content = cssText

\* C7 as amended: when updateVariable, without a selector, is called with
\* the trimmed value text of the first line that reads as a declaration of
\* the name inside a block (comments read as ordinary text), it returns
\* changed true, leaves every other line byte-identical and rewrites that
\* line to its indentation, name, separator, the value and ';'.  The
\* content is byte-identical to the input exactly when that line has no
\* whitespace between value and semicolon and nothing after the semicolon.
C7_RoundTripKeepsLine ==
    (call.fn = "updateVariable" /\ call.selector = NullSelector) =>
        LET ps == DocParts(doc)
            raw == RawTexts(ps)
            M == BlockLinesOf(ps, call.varName)
            out == Split(result.content)
        IN  (M # {} /\ call.newValue = Trim(ps[Min(M)].p.raw)) =>
               /\ result.changed
               /\ Len(out) = NumLines(raw)
               /\ \A n \in 1..NumLines(raw) :
                     out[n] = IF n = LineOf(raw, Min(M))
                              THEN ps[Min(M)].p.pre \o call.newValue
                                      \o <<";">>
                              ELSE LineText(raw, n)
               /\ result.content = cssText
                     <=> /\ Trim(ps[Min(M)].p.raw) = ps[Min(M)].p.raw
                         /\ LineText(raw, LineOf(raw, Min(M))) =
                               ps[Min(M)].p.pre \o ps[Min(M)].p.raw
                                  \o <<";">>

\* C7 witness: a round trip that rewrote a declaration line with text after
\* its semicolon, and so returned a content that is not the input.
C7_Witness ==
    /\ call.fn = "updateVariable"
    /\ call.selector = NullSelector
    /\ BlockLinesOf(DocParts(doc), call.varName) # {}
    /\ call.newValue =
          Trim(DocParts(doc)[Min(BlockLinesOf(DocParts(doc),
                                              call.varName))].p.raw)
    /\ result.changed
    /\ result.content # cssText

\* the line of the declaration at position k reads, in content, as the
\* declaration with newValue
RewritesLine(ps, k, content, newValue) ==
    LET out == Split(content)
        n == LineOf(RawTexts(ps), k)
    IN  /\ n <= Len(out)
        /\ StartsWith(out[n], ps[k].p.pre \o newValue \o <<";">>)

\* C18: for every declaration d that extractVariables returns,
\* updateVariable called with d's name and d's selector reports changed
\* and rewrites the source line of d; called with no selector for the
\* first declaration of a name, it rewrites that declaration's line.
C18_MutatorFollowsParser ==
    (call.fn = "updateVariable" /\ "of" \in DOMAIN call) =>
        LET ps == DocParts(doc)
            D == DeclSeq(ps)
        IN  /\ call.of <= Len(D)
            /\ ps[D[call.of]].p.name = call.varName
            /\ result.changed
            /\ RewritesLine(ps, D[call.of], result.content, NewValue)

\* the text of the line of the part at k before and after that part
BeforeOnLine(ts, k) ==
    LET on == {j \in 1..(k - 1) : LineOf(ts, j) = LineOf(ts, k)
                                     /\ ts[j] # Break}
    IN  IF on = {} THEN <<>> ELSE Concat(SubSeq(ts, Min(on), Max(on)))
AfterOnLine(ts, k) ==
    LET on == {j \in (k + 1)..Len(ts) : LineOf(ts, j) = LineOf(ts, k)
                                           /\ ts[j] # Break}
    IN  IF on = {} THEN <<>> ELSE Concat(SubSeq(ts, Min(on), Max(on)))

C8_OwnBlockSelector ==
    call.fn = "extractVariables" =>
        LET ps == DocParts(doc)
            D == DeclSeq(ps)
        IN  /\ Len(result) = Len(D)
            /\ \A n \in 1..Len(result) :
                  result[n].selector =
                     IF SelectorOf(doc, ps, D[n]) = <<>> THEN RootSelector
                     ELSE SelectorOf(doc, ps, D[n])

\* C9: the line of every returned declaration is the 1-based source line
\* the declaration is on; it is at most the number of lines of the text and
\* declarations on different source lines have different lines.
C9_ExactSourceLine ==
    call.fn = "extractVariables" =>
        LET ps == DocParts(doc)
            raw == RawTexts(ps)
            D == DeclSeq(ps)
        IN  /\ Len(result) = Len(D)
            /\ \A n \in 1..Len(result) :
                  /\ result[n].line = LineOf(raw, D[n])
                  /\ result[n].line >= 1
                  /\ result[n].line <= NumLines(raw)
            /\ \A m, n \in 1..Len(result) :
                  LineOf(raw, D[m]) # LineOf(raw, D[n])
                     => result[m].line # result[n].line

\* C9 as amended: line is a best-effort number.  It is at least 1, at most
\* the number of lines of the text plus one, and does not decrease from one
\* returned declaration to the next.  For a text without comments it is at
\* most the declaration's source line, and it is that source line when no
\* earlier line contains the first 20 characters of the declaration line's
\* trimmed text.
C9_BestEffortLine ==
    call.fn = "extractVariables" =>
        LET ps == DocParts(doc)
            raw == RawTexts(ps)
            D == DeclSeq(ps)
        IN  /\ \A n \in 1..Len(result) :
                  /\ result[n].line >= 1
                  /\ result[n].line <= NumLines(raw) + 1
                  /\ n > 1 => result[n - 1].line <= result[n].line
            /\ CommentFree(ps) =>
                  /\ Len(result) = Len(D)
                  /\ \A n \in 1..Len(result) :
                        LET own == LineOf(raw, D[n])
                            needle == SliceTo(Trim(LineText(raw, own)),
                                              PrefixLength)
                        IN  /\ result[n].line <= own
                            /\ (\A e \in 1..(own - 1) :
                                   ~Includes(LineText(raw, e), needle))
                                  => result[n].line = own

\* C9 witness: a text without comments in which one declaration got its own
\* source line, past the first, and a later one, whose line starts like an
\* earlier line, got that earlier line's number.
C9_Witness ==
    /\ call.fn = "extractVariables"
    /\ CommentFree(DocParts(doc))
    /\ Len(result) = Len(DeclSeq(DocParts(doc)))
    /\ \E m, n \in 1..Len(result) :
          /\ m < n
          /\ result[m].line > 1
          /\ result[m].line =
                LineOf(RawTexts(DocParts(doc)), DeclSeq(DocParts(doc))[m])
          /\ result[n].line <
                LineOf(RawTexts(DocParts(doc)), DeclSeq(DocParts(doc))[n])

\* name, value and selector of the returned declarations
Attribution(variables) ==
    [n \in 1..Len(variables) |->
        [name |-> variables[n].name, value |-> variables[n].value,
         selector |-> variables[n].selector]]

\* C10: block comments are stripped before scanning.  The declarations
\* returned are, in order, the declarations of the text outside comments,
\* each with its value, and their names, values and selectors are those
\* returned for the same text with the comments removed.
C10_CommentsStripped ==
    call.fn = "extractVariables" =>
        LET ps == DocParts(doc)
            D == DeclSeq(ps)
        IN  /\ Len(result) = Len(D)
            /\ \A n \in 1..Len(result) :
                  /\ result[n].name = ps[D[n]].p.name
                  /\ result[n].value = ps[D[n]].p.xval
            /\ Attribution(result) =
                  Attribution(extractVariables(StrippedOf(doc)))

\* C10 witness: a text that starts with a commented-out block, which holds
\* braces and a declaration line, followed by a block whose declarations
\* are returned.
C10_Witness ==
    /\ call.fn = "extractVariables"
    /\ Len(doc) > 1
    /\ Items[doc[1]] = CommentedBlock
    /\ Len(result) > 0

(***************************************************************************)
(* PART 3 - the var() reference extractor (utils/stylesheet-scanner.js)    *)
(***************************************************************************)
\* the literal start of /var\(--.../
VarOpen == <<"v", "a", "r", "(", "-", "-">>

\* the literal lit stands at index k of s
IsAt(s, k, lit) ==
    k + Len(lit) - 1 <= Len(s) /\ SubSeq(s, k, k + Len(lit) - 1) = lit

\* index of the first character of the set cs at or after i, 0 when none
FirstOf(s, i, cs) ==
    IF {k \in i..Len(s) : s[k] \in cs} = {} THEN 0
    ELSE Min({k \in i..Len(s) : s[k] \in cs})

\* where /var\(--[^)]+\)/ matches from index i on: the literal, at least
\* one character that is not ')', and the first ')' after them
MatchStarts(s, i) ==
    {k \in i..Len(s) :
        IsAt(s, k, VarOpen) /\ FirstOf(s, k + 6, {")"}) > k + 6}

RECURSIVE GlobalMatches(_, _)
\* value.match(/var\(--[^)]+\)/g): the matches, left to right, each search
\* resuming after the previous match
GlobalMatches(s, i) ==
    IF MatchStarts(s, i) = {} THEN <<>>
    ELSE LET k == Min(MatchStarts(s, i))
             e == FirstOf(s, k + 6, {")"})
         IN  <<SubSeq(s, k, e)>> \o GlobalMatches(s, e + 1)

\* v.match(/var\((--[^,)]+)/)?.[1]: the name up to the first ',' or ')',
\* the empty text standing for undefined
ReferenceName(v) ==
    LET starts == {k \in 1..Len(v) :
                      /\ IsAt(v, k, VarOpen)
                      /\ k + 6 <= Len(v)
                      /\ v[k + 6] \notin {",", ")"}}
    IN  IF starts = {} THEN <<>>
        ELSE LET k == Min(starts)
                 e == FirstOf(v, k + 6, {",", ")"})
             IN  SubSeq(v, k + 4, IF e = 0 THEN Len(v) ELSE e - 1)

\* Boolean, as filter applies it to a name
Truthy(name) == name # <<>>

extractVarReferences(value) ==
    LET matches == GlobalMatches(value, 1)
    IN  SelectSeq([n \in 1..Len(matches) |-> ReferenceName(matches[n])],
                  Truthy)

(***************************************************************************)
(* Values: sequences of tokens separated by a blank.  A token carries its  *)
(* characters c and, by construction, the custom property it references    *)
(* through a well-formed var() (ref, empty when it references none).       *)
(***************************************************************************)
\* the number of tokens of a value
MaxTokens == 3

Token(chars, ref) == [c |-> chars, ref |-> ref]

\* 0
NumberToken == Token(<<"0">>, <<>>)
\* var(--a)
VarAToken == Token(VarOpen \o <<"a", ")">>, NameA)
\* var(--b)
VarBToken == Token(VarOpen \o <<"b", ")">>, NameB)
\* var(--a, 1px): a reference with a fallback
FallbackToken ==
    Token(VarOpen \o <<"a", ",", " ", "1", "p", "x", ")">>, NameA)
\* var(--zz without its closing parenthesis
OpenToken == Token(VarOpen \o <<"z", "z">>, <<>>)

Tokens == <<NumberToken, VarAToken, VarBToken, FallbackToken, OpenToken>>

Values == UNION {[1..n -> 1..Len(Tokens)] : n \in 0..MaxTokens}

\* the text of a value
ValueText(v) ==
    Concat([k \in 1..(2 * Len(v) - 1) |->
               IF k % 2 = 1 THEN Tokens[v[(k + 1) \div 2]].c ELSE <<" ">>])

RefInit ==
    /\ PopupIdle /\ ServerIdle /\ StoreIdle /\ MapIdle
    /\ doc \in Values
    /\ cssText = ValueText(doc)
    /\ call = NoCall
    /\ result = <<>>

CallExtractRefs ==
    /\ call = NoCall
    /\ call' = [fn |-> "extractVarReferences"]
    /\ result' = extractVarReferences(cssText)
    /\ UNCHANGED <<doc, cssText, offCssVars>>

RefNext == CallExtractRefs

\* the reference extractor called on a value
RefSpec == RefInit /\ [][RefNext]_allVars

(***************************************************************************)
(* Properties of extractVarReferences                                      *)
(***************************************************************************)
\* the names a value references through well-formed var(), in order
ReferencedNames(v) ==
    SelectSeq([k \in 1..Len(v) |-> Tokens[v[k]].ref], Truthy)

\* a sequence without the repetitions of its elements, in first-seen order
FirstSeen(names) ==
    LET firsts == {k \in 1..Len(names) :
                      \A j \in 1..(k - 1) : names[j] # names[k]}
    IN  [n \in 1..Cardinality(firsts) |-> names[KthSmallest(firsts, n)]]

\* C11: extractVarReferences returns the names referenced through var(),
\* each once, in first-seen order; a fallback argument is ignored.
C11_DistinctFirstSeen ==
    call.fn = "extractVarReferences" =>
        result = FirstSeen(ReferencedNames(doc))

\* C19: a var( without its closing parenthesis contributes no reference
\* and does not disturb the others: the names returned are the names of
\* the well-formed var() occurrences of the value, and every returned name
\* is a custom-property name ('--' and name characters only).
C19_MalformedContributesNothing ==
    (/\ call.fn = "extractVarReferences"
     /\ \E k \in 1..Len(doc) : Tokens[doc[k]] = OpenToken) =>
        /\ {result[n] : n \in 1..Len(result)} =
              {ReferencedNames(doc)[n] : n \in 1..Len(ReferencedNames(doc))}
        /\ \A n \in 1..Len(result) :
              /\ IsAt(result[n], 1, <<"-", "-">>)
              /\ \A i \in 1..Len(result[n]) : result[n][i] \in NameChars

(***************************************************************************)
(* PART 4 - the commit endpoint of the dev server (vite-plugin.js)         *)
(***************************************************************************)
\* the number of changes of a commit request
MaxChanges == 3

Change(variable, value) == [variable |-> variable, value |-> value]

\* the entries of body.changes: edits of declared variables, an edit of a
\* variable no file declares, an edit to the value a file already has, and
\* an entry without a value
ChangeSet ==
    {Change(NameA, NewValue), Change(NameB, NewValue),
     Change(NameZ, NewValue), Change(NameA, <<"1">>), Change(NameA, <<>>)}

Bodies == UNION {[1..n -> ChangeSet] : n \in 0..MaxChanges}

\* the CSS files of the project, in the order getCSSFiles returns them
Projects ==
    {<<TextOf(<<1>>), TextOf(<<2>>)>>, <<TextOf(<<7>>), TextOf(<<1>>)>>}

ServerInit ==
    /\ PopupIdle /\ CssIdle /\ StoreIdle /\ MapIdle
    /\ files \in Projects
    /\ changes \in Bodies
    /\ selectorOpt \in {NullSelector, RootSelector}
    /\ pos = 0
    /\ committed = <<>>
    /\ errors = <<>>
    /\ response = NoResponse

NoLocation == [file |-> 0]

\* variables.find(v => v.name === varName) in the file f, as a location
FoundIn(f, variables, varName) ==
    IF \A k \in 1..Len(variables) : variables[k].name # varName
    THEN NoLocation
    ELSE [file |-> f,
          line |-> variables[FindVariable(variables, varName)].line,
          selector |-> variables[FindVariable(variables, varName)].selector]

\* the first file that declares varName, and where
findVariableFile(varName, cssFiles) ==
    LET Located(f) ==
            CHOOSE location \in
                {FoundIn(f, variables, varName) :
                    variables \in {extractVariables(cssFiles[f])}} : TRUE
        hits == {f \in 1..Len(cssFiles) : Located(f) # NoLocation}
    IN  IF hits = {} THEN NoLocation ELSE Located(Min(hits))

Failed(variable, error) == [variable |-> variable, error |-> error]

\* the loop body from the try on: the file is read, updated and written
WriteChange(cssFiles, change, location, updated, ioFails) ==
    IF ioFails
    THEN [ok |-> FALSE, files |-> cssFiles,
          entry |-> Failed(change.variable, "e.message")]
    ELSE IF ~updated.changed
    THEN [ok |-> FALSE, files |-> cssFiles,
          entry |-> Failed(change.variable, "Variable value unchanged")]
    ELSE [ok |-> TRUE,
          files |-> [cssFiles EXCEPT ![location.file] = updated.content],
          entry |-> [variable |-> change.variable, file |-> location.file,
                     line |-> location.line]]

\* the loop body once the variable was looked for
LocatedChange(cssFiles, change, selector, location, ioFails) ==
    IF location = NoLocation
    THEN [ok |-> FALSE, files |-> cssFiles,
          entry |-> Failed(change.variable,
                           "Variable not found in any CSS file")]
    ELSE CHOOSE outcome \in
            {WriteChange(cssFiles, change, location, updated, ioFails) :
                updated \in {updateVariable(cssFiles[location.file],
                                change.variable, change.value, selector)}} :
            TRUE

\* one pass of the loop body over a change: the files afterwards, and the
\* entry pushed to committed (ok) or to errors; ioFails: readFile or
\* writeFile throws
ProcessChange(cssFiles, change, selector, ioFails) ==
    IF change.variable = <<>> \/ change.value = <<>>
    THEN [ok |-> FALSE, files |-> cssFiles,
          entry |-> Failed(change.variable, "Missing variable or value")]
    ELSE CHOOSE outcome \in
            {LocatedChange(cssFiles, change, selector, location, ioFails) :
                location \in {findVariableFile(change.variable, cssFiles)}} :
            TRUE

\* a failing change ends the whole loop
AfterChangeMutant(at, n, ok) == IF ok THEN at + 1 ELSE n + 1

\* for (const change of changes): after a push or a continue, the next one
AfterChange(at, n, ok) == at + 1

\* the request arrives
CommitReceive ==
    /\ pos = 0
    /\ response = NoResponse
    /\ IF Len(changes) = 0
       THEN /\ response' = [status |-> 400, error |-> "No changes provided"]
            /\ UNCHANGED pos
       ELSE /\ pos' = 1
            /\ UNCHANGED response
    /\ UNCHANGED <<files, changes, selectorOpt, committed, errors,
                   offServerVars>>

\* the loop handles the change it is at
CommitChange(ioFails) ==
    /\ pos \in 1..Len(changes)
    /\ response = NoResponse
    /\ \E done \in {ProcessChange(files, changes[pos], selectorOpt, ioFails)} :
           /\ files' = done.files
           /\ committed' = IF done.ok THEN Append(committed, done.entry)
                           ELSE committed
           /\ errors' = IF done.ok THEN errors
                        ELSE Append(errors, done.entry)
           /\ pos' = AfterChange(pos, Len(changes), done.ok)
    /\ UNCHANGED <<changes, selectorOpt, response, offServerVars>>

\* sendJSON(res, { success, committed, errors: ... || undefined })
CommitResult(done, failed) ==
    IF Len(failed) > 0
    THEN [status |-> 200, success |-> FALSE, committed |-> done,
          errors |-> failed]
    ELSE [status |-> 200, success |-> TRUE, committed |-> done]

CommitRespond ==
    /\ pos > Len(changes)
    /\ response = NoResponse
    /\ response' = CommitResult(committed, errors)
    /\ UNCHANGED <<files, changes, selectorOpt, pos, committed, errors,
                   offServerVars>>

ServerNext ==
    \/ CommitReceive
    \/ \E ioFails \in BOOLEAN : CommitChange(ioFails)
    \/ CommitRespond

\* the dev server handling one commit request
ServerSpec == ServerInit /\ [][ServerNext]_allVars

(***************************************************************************)
(* Properties of the commit endpoint                                       *)
(***************************************************************************)
\* the errors of a response; the field is absent when there are none
ErrorsOf(r) == IF "errors" \in DOMAIN r THEN r.errors ELSE <<>>

\* the files other than f are the same in the next state
OnlyFileWritten(f) ==
    /\ Len(files') = Len(files)
    /\ \A g \in 1..Len(files) : g # f => files'[g] = files[g]

\* C12: every change of a non-empty batch ends in exactly one of committed
\* and errors, in turn and whatever became of the changes before it; a
\* change that fails writes no file, so what earlier changes wrote stays,
\* and a change that succeeds writes one file only; the response comes
\* after the last change, carries both lists, and its success is true
\* exactly when errors is empty.
C12_EachChangeSettlesOnce ==
    [][/\ pos \in 1..Len(changes) /\ pos' # pos =>
            /\ pos' = pos + 1
            /\ \/ /\ Len(committed') = Len(committed) + 1
                  /\ SubSeq(committed', 1, Len(committed)) = committed
                  /\ committed'[Len(committed')].variable =
                        changes[pos].variable
                  /\ errors' = errors
                  /\ OnlyFileWritten(committed'[Len(committed')].file)
               \/ /\ Len(errors') = Len(errors) + 1
                  /\ SubSeq(errors', 1, Len(errors)) = errors
                  /\ errors'[Len(errors')].variable = changes[pos].variable
                  /\ committed' = committed
                  /\ files' = files
       /\ response' # response /\ Len(changes) > 0 =>
            /\ Len(committed) + Len(errors) = Len(changes)
            /\ response'.committed = committed
            /\ ErrorsOf(response') = errors
            /\ response'.success = (Len(errors) = 0)
            /\ files' = files
      ]_serverVars

\* a batch of three whose second change names a variable no file declares
\* was answered: two committed, one error, and the third change is written
C12_Witness ==
    /\ response.status = 200
    /\ Len(changes) = 3
    /\ changes[2].variable = NameZ
    /\ ~response.success
    /\ Len(response.committed) = 2
    /\ Len(ErrorsOf(response)) = 1
    /\ response.committed[2].variable = changes[3].variable
    /\ files \notin Projects

(***************************************************************************)
(* PART 5 - token creation: insertVariable and updatePropertyToUseToken    *)
(* (server/css-parser.js)                                                  *)
(***************************************************************************)
NoBlock == [found |-> FALSE]

\* content.match(new RegExp(`(${escapeRegex(selector)}\\s*\\{)([^}]*)(\\})`,
\* 's')): the leftmost place where the selector text, optional spaces and
\* '{' are followed by a '}'; the body ends at the first '}'
MatchBlock(content, selector) ==
    LET OpenAt(k) == SkipSpaces(content, k + Len(selector))
        starts == {k \in 1..Len(content) :
                      /\ IsAt(content, k, selector)
                      /\ IsAt(content, OpenAt(k), <<"{">>)
                      /\ FirstOf(content, OpenAt(k) + 1, {"}"}) > 0}
    IN  IF starts = {} THEN NoBlock
        ELSE LET k == Min(starts)
                 e == FirstOf(content, OpenAt(k) + 1, {"}"})
             IN  [found |-> TRUE,
                  fullMatch |-> SubSeq(content, k, e),
                  open |-> SubSeq(content, k, OpenAt(k)),
                  body |-> SubSeq(content, OpenAt(k) + 1, e - 1),
                  close |-> <<"}">>]

\* content.replace(pattern, replacement) for a string pattern: the first
\* occurrence (the replacements of the model hold no '$')
ReplaceFirst(content, pattern, replacement) ==
    LET at == {k \in 1..Len(content) : IsAt(content, k, pattern)}
    IN  IF at = {} THEN content
        ELSE SubSeq(content, 1, Min(at) - 1) \o replacement
                \o SubSeq(content, Min(at) + Len(pattern), Len(content))

\* String.prototype.trimEnd
TrimEnd(t) == SubSeq(t, 1, SkipSpacesBack(t, Len(t)))

DefaultIndent == <<" ", " ">>

\* body.match(/\n(\s+)/): the spaces after the first line break that has any
detectIndent(body) ==
    LET at == {n \in 1..(Len(body) - 1) :
                  body[n] = "\n" /\ body[n + 1] \in Space}
    IN  IF at = {} THEN DefaultIndent
        ELSE SubSeq(body, Min(at) + 1, SkipSpaces(body, Min(at) + 1) - 1)

\* `${varName}: ${value};`
Declaration(varName, value) == varName \o <<":", " ">> \o value \o <<";">>

\* `\n${selector} {\n  ${varName}: ${value};\n}\n`
NewBlock(selector, varName, value) ==
    <<"\n">> \o selector \o <<" ", "{", "\n", " ", " ">>
        \o Declaration(varName, value) \o <<"\n", "}", "\n">>

\* content.substring(0, content.indexOf(sub)).split('\n').length
LineOfFirst(content, sub) ==
    LET at == {k \in 1..Len(content) : IsAt(content, k, sub)}
        upto == IF at = {} THEN Len(content) - 1 ELSE Min(at) - 1
    IN  1 + Cardinality({j \in 1..upto : content[j] = "\n"})

\* insertVariable on the content of the file: what is written, and line
insertVariable(content, varName, value, selector) ==
    LET match == MatchBlock(content, selector)
        indent == detectIndent(match.body)
        newDeclaration == indent \o Declaration(varName, value) \o <<"\n">>
        newBody == TrimEnd(match.body) \o <<"\n">> \o newDeclaration
        written ==
            IF match.found
            THEN ReplaceFirst(content, match.fullMatch,
                              match.open \o newBody \o match.close)
            ELSE content \o NewBlock(selector, varName, value)
    IN  [content |-> written, line |-> LineOfFirst(written, varName)]

\* where /((?:^|[;\s])\s*)(property)(\s*:\s*)([^;]+)(;)/gm matches in body
\* from index i on: a start k (a line start, a ';' or a space), the index p
\* of the property name after the spaces, the index v of the value after
\* the colon and its spaces, and the index e of the ';' that ends it
PropertyMatchAt(body, property, k, p) ==
    LET c == SkipSpaces(body, p + Len(property))
        v0 == SkipSpaces(body, c + 1)
        \* [^;]+ needs a character: the spaces give one back
        v == IF IsAt(body, v0, <<";">>) /\ v0 > c + 1 THEN v0 - 1 ELSE v0
        e == FirstOf(body, v, {";"})
    IN  IF /\ IsAt(body, p, property)
           /\ IsAt(body, c, <<":">>)
           /\ e > v
        THEN [ok |-> TRUE, k |-> k, p |-> p, v |-> v, e |-> e]
        ELSE [ok |-> FALSE]

\* the match that starts at k: through '^' first, then through [;\s]
PropertyMatch(body, property, k) ==
    LET lineStart == k = 1 \/ body[k - 1] \in {"\n", "\r"}
        first == PropertyMatchAt(body, property, k, SkipSpaces(body, k))
        second == PropertyMatchAt(body, property, k,
                                  SkipSpaces(body, k + 1))
    IN  IF lineStart /\ first.ok THEN first
        ELSE IF k <= Len(body) /\ body[k] \in Space \cup {";"} THEN second
        ELSE [ok |-> FALSE]

\* no match is left as it is
SkipsMutant(body, m) == FALSE

\* the callback of body.replace: a match whose name starts with '-' or
\* whose prefix holds '--' is returned as it is
Skips(body, m) ==
    \/ Includes(SubSeq(body, m.k, m.p - 1), <<"-", "-">>)
    \/ body[m.p] = "-"

RECURSIVE ReplaceProperties(_, _, _, _)
\* body.replace(propertyRegex, callback) from index i on
ReplaceProperties(body, property, varName, i) ==
    LET at == {k \in i..(Len(body) + 1) :
                  PropertyMatch(body, property, k).ok}
    IN  IF at = {} THEN [text |-> SubSeq(body, i, Len(body)),
                         changed |-> FALSE]
        ELSE LET m == PropertyMatch(body, property, Min(at))
                 rest == ReplaceProperties(body, property, varName, m.e + 1)
             IN  IF Skips(body, m)
                 THEN [text |-> SubSeq(body, i, m.e) \o rest.text,
                       changed |-> rest.changed]
                 ELSE [text |-> SubSeq(body, i, m.v - 1)
                                  \o <<"v", "a", "r", "(">> \o varName
                                  \o <<")", ";">> \o rest.text,
                       changed |-> TRUE]

\* updatePropertyToUseToken on the content of the file: changed, whether the
\* file is written, and its content afterwards
updatePropertyToUseToken(content, selector, property, varName) ==
    LET match == MatchBlock(content, selector)
        newBody == ReplaceProperties(match.body, property, varName, 1)
    IN  IF ~match.found
        THEN [changed |-> FALSE, written |-> FALSE, content |-> content]
        ELSE IF newBody.changed
        THEN [changed |-> TRUE, written |-> TRUE,
              content |-> ReplaceFirst(content, match.fullMatch,
                             match.open \o newBody.text \o match.close)]
        ELSE [changed |-> FALSE, written |-> FALSE, content |-> content]

\* the selectors and properties token creation is asked for
ScopeArgs == {RootSelector, <<".", "d">>, <<".", "f">>, <<".", "p">>,
              <<".", "q">>, <<".", "z", "z">>}
PropertyArgs == {Gap, RowGap, NameGap}
\* the names of the tokens created: one no text holds, one that texts
\* declare, one that is the beginning of a longer declared name
InsertArgs == {NameZ, NameA, NameHover}

TokenInit ==
    /\ PopupIdle /\ ServerIdle /\ StoreIdle /\ MapIdle
    /\ doc \in Docs
    /\ cssText = TextOf(doc)
    /\ call = NoCall
    /\ result = <<>>

CallInsert ==
    /\ call = NoCall
    /\ \E selector \in ScopeArgs, varName \in InsertArgs :
          /\ call' = [fn |-> "insertVariable", selector |-> selector,
                      varName |-> varName]
          /\ result' = insertVariable(cssText, varName, NewValue, selector)
    /\ UNCHANGED <<doc, cssText, offCssVars>>

CallUseToken ==
    /\ call = NoCall
    /\ \E selector \in ScopeArgs, property \in PropertyArgs :
          /\ call' = [fn |-> "updatePropertyToUseToken",
                      selector |-> selector, property |-> property]
          /\ result' = updatePropertyToUseToken(cssText, selector, property,
                                                NameZ)
    /\ UNCHANGED <<doc, cssText, offCssVars>>

TokenNext ==
    \/ CallInsert
    \/ CallUseToken

\* token creation called on a text
TokenSpec == TokenInit /\ [][TokenNext]_allVars

(***************************************************************************)
(* Properties of token creation                                            *)
(***************************************************************************)
\* the text of a library item
ItemText(item) == Concat([k \in 1..Len(item.parts) |-> item.parts[k].c])

\* the text composed of the items of comp, the item at position i replaced
\* by the text t
WithItem(comp, i, t) ==
    Join([k \in 1..Len(comp) |->
            IF k = i THEN t ELSE ItemText(Items[comp[k]])])

\* the indentation of a declaration line
IndentOf(p) ==
    SubSeq(p.pre, 1, Min({k \in 1..Len(p.pre) : IsAt(p.pre, k, p.name)}) - 1)

\* the indentation of the first declaration of a block
BlockIndent(item) ==
    LET decls == {k \in 1..Len(item.parts) : item.parts[k].pre # <<>>}
    IN  IF decls = {} THEN DefaultIndent
        ELSE IndentOf(item.parts[Min(decls)])

\* a block with one more declaration, on a line of its own before the
\* closing brace
WithDeclaration(item, declaration) ==
    LET t == ItemText(item)
    IN  SubSeq(t, 1, Len(t) - 1) \o BlockIndent(item) \o declaration
            \o <<"\n", "}">>

\* the blocks of a text that are blocks for selector
BlocksFor(comp, selector) ==
    {i \in 1..Len(comp) : Items[comp[i]].sel = selector}

\* C14: when the text has a block for the selector, insertVariable adds
\* the declaration as the last one of the first such block, indented like
\* the block's declarations, and nothing else changes; when it has none, a
\* new block with the declaration alone is appended and the text before it
\* is kept.  (Texts with NestedBlock are left out: a block inside an
\* at-rule is not described by its item.)
C14_InsertedInFirstBlock ==
    (/\ call.fn = "insertVariable"
     /\ \A i \in 1..Len(doc) : Items[doc[i]] # NestedBlock) =>
        LET blocks == BlocksFor(doc, call.selector)
            declaration == Declaration(call.varName, NewValue)
        IN  IF blocks = {}
            THEN result.content =
                    cssText \o NewBlock(call.selector, call.varName,
                                        NewValue)
            ELSE result.content =
                    WithItem(doc, Min(blocks),
                             WithDeclaration(Items[doc[Min(blocks)]],
                                             declaration))

\* a part with the value of a declaration replaced by var(varName)
UsesToken(p, property, varName) ==
    IF ~p.d /\ p.name = property
    THEN p.pre \o <<"v", "a", "r", "(">> \o varName \o <<")", ";">>
    ELSE p.c

\* a block with the value of each declaration of exactly property replaced
BlockUsingToken(item, property, varName) ==
    Concat([k \in 1..Len(item.parts) |->
               UsesToken(item.parts[k], property, varName)])

EndsWith(t, suffix) ==
    Len(t) >= Len(suffix)
    /\ SubSeq(t, Len(t) - Len(suffix) + 1, Len(t)) = suffix

\* C15: updatePropertyToUseToken either leaves the text as it is, or the
\* text it writes differs from it in one block whose selector text matches,
\* and there in the values of the declarations of exactly the property,
\* each now var(varName): custom properties and properties whose name only
\* contains the property keep their values; changed is false exactly when
\* the text is left as it is, and then nothing is written.
C15_OnlyThePropertyInTheBlock ==
    call.fn = "updatePropertyToUseToken" =>
        /\ result.changed = (result.content # cssText)
        /\ result.written = result.changed
        /\ result.changed =>
              \E i \in 1..Len(doc) :
                 /\ EndsWith(Items[doc[i]].sel, call.selector)
                 /\ result.content =
                       WithItem(doc, i,
                                BlockUsingToken(Items[doc[i]],
                                                call.property, NameZ))
        /\ call.property = NameGap => ~result.changed

\* C15 witness: gap was replaced in the block .p, which also declares
\* --gap and row-gap, and the block .q after it has a gap of its own
C15_Witness ==
    /\ call.fn = "updatePropertyToUseToken"
    /\ call.selector = <<".", "p">>
    /\ call.property = Gap
    /\ Len(doc) = 2
    /\ Items[doc[1]] = GapBlock
    /\ Items[doc[2]] = GridBlock
    /\ result.changed
    /\ result.content # cssText

\* C29: the line insertVariable returns is the 1-based line of the
\* declaration it has just inserted, also when the variable name occurs
\* earlier in the file (in a previous declaration, or as the beginning of
\* a longer name): that line of the written content is the new
\* declaration, alone on its line.
C29_LineOfInsertedDeclaration ==
    call.fn = "insertVariable" =>
        LET out == Split(result.content)
        IN  /\ result.line \in 1..Len(out)
            /\ Trim(out[result.line]) = Declaration(call.varName, NewValue)

\* the written text differs from the text read only inside the item at
\* position i: what stands before the item and what stands after it are
\* kept
OnlyItemModified(comp, i, written) ==
    LET rest == WithItem(comp, i, <<>>)
        a == Len(WithItem(SubSeq(comp, 1, i), i, <<>>))
        b == Len(rest) - a
    IN  /\ Len(written) >= Len(rest)
        /\ SubSeq(written, 1, a) = SubSeq(rest, 1, a)
        /\ SubSeq(written, Len(written) - b + 1, Len(written))
              = SubSeq(rest, a + 1, Len(rest))

\* C30: insertVariable and updatePropertyToUseToken only ever modify a
\* block whose selector text is exactly the given selector: when the text
\* they write differs from the text read, either the text read is kept
\* whole and a new block follows it, or the difference lies inside one
\* block whose selector is the given one, never inside a block whose
\* selector only ends with or contains it.  (Texts with NestedBlock or
\* CommentedBlock are left out: the block text a call finds there is not
\* an item's own block.)
C30_ExactSelectorBlockOnly ==
    (/\ call.fn \in {"insertVariable", "updatePropertyToUseToken"}
     /\ \A i \in 1..Len(doc) :
           Items[doc[i]] \notin {NestedBlock, CommentedBlock}
     /\ result.content # cssText) =>
        \/ /\ call.fn = "insertVariable"
           /\ Len(result.content) > Len(cssText)
           /\ SubSeq(result.content, 1, Len(cssText)) = cssText
        \/ \E i \in BlocksFor(doc, call.selector) :
              OnlyItemModified(doc, i, result.content)

(***************************************************************************)
(* PART 6 - live edits and the persisted pending changes                   *)
(* (utils/state-persistence.js, controls/toolbar-popup.js,                 *)
(* controls/commit-panel.js, the controls' change handlers)                *)
(***************************************************************************)
\* the custom properties the controls edit, the value the page's
\* stylesheet gives each of them, and the values a control can set
RootVariables == {"--x", "--y"}
SheetValue == "1px"
StepValues == {"4px", "8px"}

\* no inline declaration on the root element
Unset == "unset"

\* no entry in state.variables
NoChange == [pending |-> FALSE, original |-> "", current |-> ""]

\* no commit request is in flight
NoPayload ==
    [inflight |-> FALSE, variables |-> {},
     value |-> [variable \in RootVariables |-> ""]]

\* the last operation: its name, the response kind and the changes the
\* server wrote (commit), the arguments of trackChange (edit)
Op(name, kind, done) ==
    [name |-> name, kind |-> kind, committed |-> done, variable |-> "",
     newValue |-> "", originalValue |-> ""]

Tracked(variable, newValue, originalValue) ==
    [name |-> "edit", kind |-> "", committed |-> {}, variable |-> variable,
     newValue |-> newValue, originalValue |-> originalValue]

StoreInit ==
    /\ PopupIdle /\ CssIdle /\ ServerIdle /\ MapIdle
    /\ root = [variable \in RootVariables |-> Unset]
    /\ store = [variable \in RootVariables |-> NoChange]
    /\ preEdit = [variable \in RootVariables |-> ""]
    /\ payload = NoPayload
    /\ op = Op("none", "", {})

\* getComputedStyle(document.documentElement).getPropertyValue(variable):
\* the inline declaration wins over the stylesheet's
Computed(style, variable) ==
    IF style[variable] = Unset THEN SheetValue ELSE style[variable]

\* every call stores the original it is passed
trackChangeMutant(state, variable, newValue, originalValue) ==
    [state EXCEPT ![variable] =
        [pending |-> TRUE, original |-> originalValue, current |-> newValue]]

\* persistence.trackChange(variable, newValue, originalValue)
trackChange(state, variable, newValue, originalValue) ==
    IF ~state[variable].pending
    THEN [state EXCEPT ![variable] =
            [pending |-> TRUE, original |-> originalValue,
             current |-> newValue]]
    ELSE [state EXCEPT ![variable].current = newValue]

\* persistence.revertVariable(variable)
revertVariable(state, variable) == [state EXCEPT ![variable] = NoChange]

\* persistence.clear()
clear == [variable \in RootVariables |-> NoChange]

\* the variables of persistence.getPendingChanges()
getPendingChanges(state) ==
    {variable \in RootVariables : state[variable].pending}

\* a control's change handler: it sets the root custom property and fires
\* control-change; the popup's listener (_persistVariableChange) reads the
\* computed value and tracks the change
Edit(variable, value) ==
    LET style == [root EXCEPT ![variable] = value]
        original == Computed(style, variable)
    IN  /\ root' = style
        /\ store' = trackChange(store, variable, value, original)
        /\ preEdit' = IF store[variable].pending THEN preEdit
                      ELSE [preEdit EXCEPT
                               ![variable] = Computed(root, variable)]
        /\ op' = Tracked(variable, value, original)
        /\ UNCHANGED <<payload, offStoreVars>>

\* CommitPanel._handleRevert(variable)
Revert(variable) ==
    /\ store[variable].pending
    /\ root' = [root EXCEPT ![variable] = store[variable].original]
    /\ store' = revertVariable(store, variable)
    /\ preEdit' = [preEdit EXCEPT ![variable] = ""]
    /\ op' = Op("revert", "", {})
    /\ UNCHANGED <<payload, offStoreVars>>

\* CommitPanel._handleDiscardAll()
DiscardAll ==
    /\ root' = [variable \in RootVariables |->
                   IF store[variable].pending
                   THEN store[variable].original ELSE root[variable]]
    /\ store' = clear
    /\ preEdit' = [variable \in RootVariables |-> ""]
    /\ op' = Op("discard", "", {})
    /\ UNCHANGED <<payload, offStoreVars>>

\* ToolbarPopup.resetAll()
ResetAll ==
    /\ root' = [variable \in RootVariables |->
                   IF store[variable].pending THEN Unset
                   ELSE root[variable]]
    /\ store' = clear
    /\ preEdit' = [variable \in RootVariables |-> ""]
    /\ op' = Op("reset", "", {})
    /\ UNCHANGED <<payload, offStoreVars>>

\* the page is loaded again: the inline declarations are gone, and
\* ToolbarPopup._restoreSavedState sets the pending ones; a request in
\* flight is lost with the page, and the modules start from their initial
\* state
Reload ==
    /\ root' = [variable \in RootVariables |->
                   IF store[variable].pending
                   THEN store[variable].current ELSE Unset]
    /\ payload' = NoPayload
    /\ op' = Op("reload", "", {})
    /\ variableMap' = {}
    /\ isBuilt' = FALSE
    /\ tokens' = {}
    /\ mapCall' = [fn |-> "none", n |-> mapCall.n]
    /\ UNCHANGED <<store, preEdit, offMapVars>>

\* CommitPanel._commitToServer up to its fetch
CommitStart ==
    /\ ~payload.inflight
    /\ payload' = [inflight |-> TRUE,
                   variables |-> getPendingChanges(store),
                   value |-> [variable \in RootVariables |->
                                 store[variable].current]]
    /\ op' = Op("commit", "", {})
    /\ UNCHANGED <<root, store, preEdit, offStoreVars>>

\* what the commit request comes to: success true, success false with some
\* changes committed, a 500 with an error body, a rejected fetch
Responses == {"success", "partial", "error", "network"}

\* the store is cleared on any response
ClearsOnMutant(kind) == kind # "network"

\* if (result.success) persistence.clear()
ClearsOn(kind) == kind = "success"

\* CommitPanel._commitToServer after its fetch; done: the changes the
\* server wrote to the files
CommitSettles(kind, done) ==
    /\ payload.inflight
    /\ done \subseteq payload.variables
    /\ kind = "success" => done = payload.variables
    /\ kind = "partial" => done # payload.variables
    /\ kind \in {"error", "network"} => done = {}
    /\ store' = IF ClearsOn(kind) THEN clear ELSE store
    /\ preEdit' = IF ClearsOn(kind) THEN [variable \in RootVariables |-> ""]
                  ELSE preEdit
    /\ payload' = NoPayload
    /\ op' = Op("response", kind, done)
    /\ UNCHANGED <<root, offStoreVars>>

\* CommitPanel._copyToClipboard: the commit action without a dev server
CopyToClipboard(copied) ==
    /\ ~payload.inflight
    /\ store' = IF copied THEN clear ELSE store
    /\ preEdit' = IF copied THEN [variable \in RootVariables |-> ""]
                  ELSE preEdit
    /\ op' = Op("copy", IF copied THEN "success" ELSE "error", {})
    /\ UNCHANGED <<root, payload, offStoreVars>>

StoreNext ==
    \/ \E variable \in RootVariables, value \in StepValues :
           Edit(variable, value)
    \/ \E variable \in RootVariables : Revert(variable)
    \/ DiscardAll
    \/ ResetAll
    \/ Reload
    \/ CommitStart
    \/ \E kind \in Responses, done \in SUBSET RootVariables :
           CommitSettles(kind, done)
    \/ \E copied \in BOOLEAN : CopyToClipboard(copied)

\* edits, reverts and commits of a page
StoreSpec == StoreInit /\ [][StoreNext]_allVars

(***************************************************************************)
(* Properties of the pending changes                                       *)
(***************************************************************************)
\* C16: the stored original of every pending variable is the value the
\* variable had before its first edit, the value that Discard All and the
\* per-variable revert set the root custom property back to.
C16_OriginalIsPreEditValue ==
    \A variable \in RootVariables :
        store[variable].pending =>
            store[variable].original = preEdit[variable]

\* C17: a response without success true (partial failure, error body) and
\* a rejected request leave every pending change in the store as it is,
\* those the server committed included; a response with success true
\* leaves the store empty; and a store of several changes is emptied by
\* nothing but discard, reset and a successful commit action.
C17_ClearedOnlyOnSuccess ==
    [][/\ op'.name = "response" =>
            IF op'.kind = "success"
            THEN getPendingChanges(store') = {}
            ELSE store' = store
       /\ (/\ Cardinality(getPendingChanges(store)) > 1
           /\ getPendingChanges(store') = {})
             => \/ op'.name \in {"discard", "reset"}
                \/ op'.name \in {"response", "copy"} /\ op'.kind = "success"
      ]_storeVars

\* C17 witness: two changes were sent, the server committed one and
\* answered success false, and both are still pending
C17_Witness ==
    /\ op.name = "response"
    /\ op.kind = "partial"
    /\ Cardinality(op.committed) = 1
    /\ getPendingChanges(store) = RootVariables
    /\ \A variable \in RootVariables :
          store[variable].current \in StepValues

\* C22: the first trackChange for a variable creates its entry with the
\* original and the current value passed; every later call for it changes
\* only current; a call leaves the entries of the other variables as they
\* are; and the original of an entry stays what it is for as long as the
\* entry exists (until a revert or a clearing of the store removes it).
C22_OriginalKeptCurrentUpdated ==
    [][/\ op'.name = "edit" =>
            LET variable == op'.variable
            IN  /\ store'[variable].pending
                /\ store'[variable].current = op'.newValue
                /\ store'[variable].original =
                      IF store[variable].pending
                      THEN store[variable].original
                      ELSE op'.originalValue
                /\ \A other \in RootVariables \ {variable} :
                      store'[other] = store[other]
       /\ \A variable \in RootVariables :
            (store[variable].pending /\ store'[variable].pending)
               => store'[variable].original = store[variable].original
       /\ \A variable \in RootVariables :
            (store[variable].pending /\ ~store'[variable].pending)
               => op'.name \in {"revert", "discard", "reset", "response",
                                "copy"}
      ]_storeVars

\* C22 witness: --x was edited twice, the second call passing another
\* original than the first, while --y was pending; --x keeps the first
\* original and has the second value, --y is as it was
C22_Witness ==
    /\ op.name = "edit"
    /\ op.variable = "--x"
    /\ op.newValue = "8px"
    /\ op.originalValue = "8px"
    /\ store["--x"] = [pending |-> TRUE, original |-> "4px",
                       current |-> "8px"]
    /\ store["--y"].pending

\* C27: when a commit request succeeds, the changes removed from the store
\* are exactly the changes that were sent: every change the response
\* removes was in the payload with the value the store holds, and every
\* change the server wrote is still in the store with the value written,
\* whatever was tracked, updated or reverted while the request was in
\* flight.
C27_RemovedIsWhatWasSent ==
    [][(op'.name = "response" /\ op'.kind = "success") =>
          /\ \A variable \in RootVariables :
                (store[variable].pending /\ ~store'[variable].pending)
                   => /\ variable \in payload.variables
                      /\ store[variable].current = payload.value[variable]
          /\ \A variable \in op'.committed :
                /\ store[variable].pending
                /\ store[variable].current = payload.value[variable]
      ]_storeVars

(***************************************************************************)
(* PART 7 - merging the resolution results (ToolbarPopup._mergeVariables)  *)
(***************************************************************************)
\* the number of references each strategy returns
MaxRefs == 2

\* a VariableReference, tagged with the strategy that found it
Reference(variable, property, by) ==
    [variable |-> variable, property |-> property, by |-> by]

ReferencesBy(by) ==
    {Reference(variable, property, by) :
        variable \in RootVariables, property \in {"color", "gap"}}

ListsBy(by) == UNION {[1..n -> ReferencesBy(by)] : n \in 0..MaxRefs}

\* nothing counts as present already
existingVarsMutant(directVars) == {}

\* new Set(directVars.map(v => v.variable))
existingVars(directVars) ==
    {directVars[k].variable : k \in 1..Len(directVars)}

RECURSIVE PushMapped(_, _, _, _)
\* for (const mappedVar of mappedVars) from the i-th on
PushMapped(merged, existing, mappedVars, i) ==
    IF i > Len(mappedVars) THEN merged
    ELSE IF mappedVars[i].variable \notin existing
    THEN PushMapped(Append(merged, mappedVars[i]), existing, mappedVars,
                    i + 1)
    ELSE PushMapped(merged, existing, mappedVars, i + 1)

mergeVariables(directVars, mappedVars) ==
    PushMapped(directVars, existingVars(directVars), mappedVars, 1)

MergeInit ==
    /\ PopupIdle /\ ServerIdle /\ StoreIdle /\ MapIdle
    /\ doc \in [directVars : ListsBy("direct"), mappedVars : ListsBy("map")]
    /\ cssText = <<>>
    /\ call = NoCall
    /\ result = <<>>

CallMerge ==
    /\ call = NoCall
    /\ call' = [fn |-> "_mergeVariables"]
    /\ result' = mergeVariables(doc.directVars, doc.mappedVars)
    /\ UNCHANGED <<doc, cssText, offCssVars>>

MergeNext == CallMerge

\* show() merging the results of its first two strategies
MergeSpec == MergeInit /\ [][MergeNext]_allVars

\* C20: the merged list is the direct-detection references, unchanged and
\* in their order, followed by exactly the cache-based references whose
\* variable name no direct-detection reference has, in their order.
C20_DirectThenNewMapped ==
    call.fn = "_mergeVariables" =>
        LET directVars == doc.directVars
            mappedVars == doc.mappedVars
            IsNew(m) == \A k \in 1..Len(directVars) :
                            directVars[k].variable # m.variable
        IN  result = directVars \o SelectSeq(mappedVars, IsNew)

\* C20 witness: of two cache-based references one repeats the name of a
\* direct one and is dropped, the other is appended after the direct ones
C20_Witness ==
    /\ call.fn = "_mergeVariables"
    /\ Len(doc.directVars) = 2
    /\ Len(doc.mappedVars) = 2
    /\ doc.mappedVars[1].variable = doc.directVars[1].variable
    /\ doc.mappedVars[2].variable \notin
          {doc.directVars[1].variable, doc.directVars[2].variable}
    /\ Len(result) = 3
    /\ result[3] = doc.mappedVars[2]

(***************************************************************************)
(* PART 8 - the variable map (scanner/variable-map.js)                     *)
(***************************************************************************)
\* the calls into the module in one run
MaxMapCalls == 3

\* the keys of the map that a length value is filed under
MapProperties == {"font-size", "padding", "margin", "gap", "border-radius"}

\* Array.from(getComputedStyle(document.documentElement)): the custom
\* properties in the order iterateRootCustomProperties yields them
RootOrder == <<"--x", "--y">>

\* the page elements looked up: the card's gap is var(--x), the list's
\* padding is a literal 1px; every other property computes to 0px
PageElements == {"card", "list"}

\* window.getComputedStyle(element).getPropertyValue(property).trim()
ComputedOf(element, property, style) ==
    IF element = "card" /\ property = "gap" THEN Computed(style, "--x")
    ELSE IF element = "list" /\ property = "padding" THEN SheetValue
    ELSE "0px"

\* map[property][value] = { variable: customProp, ... }
Entry(property, value, variable) ==
    [property |-> property, value |-> value, variable |-> variable]

\* buildVariableMap(): every root custom property is filed under its
\* value; of two properties with one value the later one stays
buildVariableMap(style) ==
    LET Last(k) == \A j \in (k + 1)..Len(RootOrder) :
                      Computed(style, RootOrder[j]) #
                      Computed(style, RootOrder[k])
    IN  {Entry(property, Computed(style, RootOrder[k]), RootOrder[k]) :
            property \in MapProperties,
            k \in {i \in 1..Len(RootOrder) : Last(i)}}

\* every lookup builds the map
NeedsBuildMutant(built) == TRUE

\* if (!isBuilt)
NeedsBuild(built) == ~built

\* the loop of resolveTokensForElement over the entries of the map
LookUp(map, element, style) ==
    {[property |-> e.property, variable |-> e.variable] :
        e \in {e \in map :
                  e.value = ComputedOf(element, e.property, style)}}

MapCalled(fn) == [fn |-> fn, n |-> mapCall.n + 1]

\* resolveTokensForElement(element)
ResolveTokens(element) ==
    /\ mapCall.n < MaxMapCalls
    /\ \E map \in {IF NeedsBuild(isBuilt) THEN buildVariableMap(root)
                    ELSE variableMap} :
          /\ variableMap' = map
          /\ tokens' = LookUp(map, element, root)
    /\ isBuilt' = TRUE
    /\ mapCall' = MapCalled("resolveTokensForElement")
    /\ UNCHANGED <<storeVars, offMapVars>>

\* buildVariableMap() called through the package's export
BuildVariableMap ==
    /\ mapCall.n < MaxMapCalls
    /\ variableMap' = buildVariableMap(root)
    /\ isBuilt' = TRUE
    /\ mapCall' = MapCalled("buildVariableMap")
    /\ UNCHANGED <<tokens, storeVars, offMapVars>>

MapNext ==
    \/ \E element \in PageElements : ResolveTokens(element)
    \/ BuildVariableMap
    \/ \E variable \in RootVariables, value \in StepValues :
           Edit(variable, value)
    \/ \E variable \in RootVariables : Revert(variable)
    \/ ResetAll
    \/ Reload

\* lookups and rebuilds of the map on a page whose root properties are
\* edited
MapSpec == StoreInit /\ [][MapNext]_allVars

\* C23: resolveTokensForElement builds the map only while isBuilt is
\* false; once it is built a lookup leaves it as it is, an edit of a root
\* custom property leaves it as it is (so it goes stale), and it changes
\* only by a buildVariableMap call, which replaces it by the map of the
\* root properties of that moment (a new page load starts over).
C23_BuiltOnceRebuiltWhole ==
    [][LET called == mapCall'.n # mapCall.n
           lookup == called /\ mapCall'.fn = "resolveTokensForElement"
           rebuild == called /\ mapCall'.fn = "buildVariableMap"
       IN  /\ (lookup /\ isBuilt) => variableMap' = variableMap
           /\ root' # root => (variableMap' = variableMap
                                 \/ op'.name = "reload")
           /\ (variableMap' # variableMap /\ op'.name # "reload")
                => /\ rebuild \/ (lookup /\ ~isBuilt)
                   /\ \A e \in variableMap' :
                         Computed(root', e.variable) = e.value
                   /\ \A variable \in RootVariables :
                         \E e \in variableMap' :
                            e.value = Computed(root', variable)
      ]_<<mapVars, storeVars>>

\* C23 witness: the map was built by the first lookup, --x was edited, and
\* a later lookup of the card (whose gap is var(--x)) was answered from
\* the stale map: it still files --x under its old value and finds nothing
C23_Witness ==
    /\ mapCall.fn = "resolveTokensForElement"
    /\ mapCall.n > 1
    /\ isBuilt
    /\ Computed(root, "--x") = "4px"
    /\ Entry("gap", "4px", "--x") \notin variableMap
    /\ Entry("gap", SheetValue, "--y") \in variableMap
    /\ tokens = {}

====
